---- MODULE Spec2Model ----
(***************************************************************************)
(* Model of the Woodlands Market demo-booking backend (server.js): the     *)
(* booking codec kept in the payment session's metadata, the checkout and  *)
(* payment-verification handlers, the admin guard, the admin listing,      *)
(* stats, analytics and refund handlers.                                   *)
(*                                                                         *)
(* JavaScript values are represented as follows.                           *)
(*   string           a TLA+ string (Len counts its units)                 *)
(*   optional value   a sequence of length <= 1: <<>> is undefined,        *)
(*                    <<v>> is the value v                                 *)
(*   object           a function from its own keys to their values; a key  *)
(*                    holding undefined is a missing key (both read as     *)
(*                    undefined and both are left out by JSON.stringify)   *)
(*   array            a sequence                                           *)
(***************************************************************************)
EXTENDS Integers, Sequences, FiniteSets, TLC

VARIABLES
    env,      \* the process: process.env and the clock as the handlers read
              \* them, and whether Object.prototype has gained members
    stripe,   \* the payment processor: its sessions and the calls it received
    resend,   \* the email provider: the sends it received
    reqs      \* the requests being handled, one record per client connection

vars == <<env, stripe, resend, reqs>>

(***************************************************************************)
(* Strings                                                                 *)
(***************************************************************************)

\* s[i] of JavaScript: the unit at (1-based) position i, "" outside the string.
CharAt(s, i) == IF i >= 1 /\ i <= Len(s) THEN SubSeq(s, i, i) ELSE ""

\* String.prototype.slice(from, to) with 0-based, non-negative from <= to.
Slice(s, from, to) ==
    LET hi == IF to > Len(s) THEN Len(s) ELSE to
    IN  IF from >= hi THEN "" ELSE SubSeq(s, from + 1, hi)

Digits == <<"0", "1", "2", "3", "4", "5", "6", "7", "8", "9">>

IsDigit(c) == \E d \in 1..10 : Digits[d] = c

DigitVal(c) == (CHOOSE d \in 1..10 : Digits[d] = c) - 1

\* String(n) for an integer n >= 0.
RECURSIVE NatToString(_)
NatToString(n) ==
    IF n < 10 THEN Digits[n + 1]
    ELSE NatToString(n \div 10) \o Digits[(n % 10) + 1]

IsWhite(c) == c \in {" ", "\t", "\n", "\r", "\f"}

RECURSIVE SkipWhite(_, _)
SkipWhite(s, i) == IF IsWhite(CharAt(s, i)) THEN SkipWhite(s, i + 1) ELSE i

RECURSIVE DigitRun(_, _, _)
DigitRun(s, i, acc) ==
    IF IsDigit(CharAt(s, i))
    THEN DigitRun(s, i + 1, <<acc[1] * 10 + DigitVal(CharAt(s, i)), TRUE>>)
    ELSE acc

HexDigits == <<"0", "1", "2", "3", "4", "5", "6", "7", "8", "9",
               "a", "b", "c", "d", "e", "f">>

HexUpper == <<"0", "1", "2", "3", "4", "5", "6", "7", "8", "9",
              "A", "B", "C", "D", "E", "F">>

IsHexDigit(c) == \E d \in 1..16 : HexDigits[d] = c \/ HexUpper[d] = c

HexVal(c) == (CHOOSE d \in 1..16 : HexDigits[d] = c \/ HexUpper[d] = c) - 1

RECURSIVE HexRun(_, _, _)
HexRun(s, i, acc) ==
    IF IsHexDigit(CharAt(s, i))
    THEN HexRun(s, i + 1, <<acc[1] * 16 + HexVal(CharAt(s, i)), TRUE>>)
    ELSE acc

\* parseInt(s) without a radix: leading white space, an optional sign, then
\* after a 0x or 0X prefix the longest run of hexadecimal digits, otherwise the
\* longest run of decimal digits; <<>> stands for NaN.
ParseInt(s) ==
    LET i    == SkipWhite(s, 1)
        neg  == CharAt(s, i) = "-"
        j    == IF CharAt(s, i) \in {"-", "+"} THEN i + 1 ELSE i
        hex  == CharAt(s, j) = "0" /\ CharAt(s, j + 1) \in {"x", "X"}
        run  == IF hex THEN HexRun(s, j + 2, <<0, FALSE>>)
                ELSE DigitRun(s, j, <<0, FALSE>>)
    IN  IF ~run[2] THEN <<>>
        ELSE IF neg THEN <<0 - run[1]>> ELSE <<run[1]>>

(***************************************************************************)
(* Optional values and objects                                             *)
(***************************************************************************)

\* The element of a one-element set.  The({F(x) : x \in {e}}) is F(e) with e
\* evaluated once and bound to x, as a const declaration binds in the source.
The(S) == CHOOSE x \in S : TRUE

Undefined == <<>>

Some(v) == <<v>>

\* obj[key]: the value, or undefined for a key the object does not own.
Get(obj, key) == IF key \in DOMAIN obj THEN Some(obj[key]) ELSE Undefined

\* Truthiness of an optional string: undefined and "" are falsy.
Truthy(m) == m # Undefined /\ m[1] # ""

\* a || b on optional strings.
OrElse(a, b) == IF Truthy(a) THEN a ELSE b

\* The object with the given optional fields, a field of undefined left out.
ObjectOf(fields) ==
    [k \in {q \in DOMAIN fields : fields[q] # Undefined} |-> fields[k][1]]

(***************************************************************************)
(* JSON.stringify of the slim cart                                         *)
(***************************************************************************)

\* The escape JSON.stringify writes for one unit of a string.
EscapeChar(c) ==
    CASE c = "\"" -> "\\\""
      [] c = "\\" -> "\\\\"
      [] c = "\n" -> "\\n"
      [] c = "\t" -> "\\t"
      [] c = "\r" -> "\\r"
      [] c = "\f" -> "\\f"
      [] OTHER    -> c

RECURSIVE EscapeFrom(_, _)
EscapeFrom(s, i) ==
    IF i > Len(s) THEN "" ELSE EscapeChar(CharAt(s, i)) \o EscapeFrom(s, i + 1)

\* JSON.stringify of a string.
QuoteJSON(s) == "\"" \o EscapeFrom(s, 1) \o "\""

\* The keys of a slim booking, in the order the object literal writes them.
SlimKeys == <<"date", "time", "location", "displayDate">>

RECURSIVE StringifyMembers(_, _, _)
StringifyMembers(obj, i, first) ==
    IF i > Len(SlimKeys) THEN ""
    ELSE IF SlimKeys[i] \notin DOMAIN obj
         THEN StringifyMembers(obj, i + 1, first)
         ELSE (IF first THEN "" ELSE ",")
              \o QuoteJSON(SlimKeys[i]) \o ":" \o QuoteJSON(obj[SlimKeys[i]])
              \o StringifyMembers(obj, i + 1, FALSE)

\* JSON.stringify of one slim booking.
StringifyObject(obj) == "{" \o StringifyMembers(obj, 1, TRUE) \o "}"

RECURSIVE StringifyElements(_, _)
StringifyElements(arr, i) ==
    IF i > Len(arr) THEN ""
    ELSE (IF i = 1 THEN "" ELSE ",") \o StringifyObject(arr[i])
         \o StringifyElements(arr, i + 1)

\* JSON.stringify of the slim cart.
JSONStringify(arr) == "[" \o StringifyElements(arr, 1) \o "]"

(***************************************************************************)
(* JSON.parse                                                              *)
(*                                                                         *)
(* The parser covers the texts the metadata can hold in this model: an     *)
(* array of objects whose members are strings (what the encoder writes),   *)
(* and, at the top level, also an object of string members, a string, an   *)
(* integer, true, false and null.  A result is [ok, kind, v, next]: ok is  *)
(* FALSE where JSON.parse throws a SyntaxError, whose message is then v;   *)
(* next is the position after the value.  The messages are the engine's    *)
(* (V8 as shipped with Node 20); a position in a message counts from 0.    *)
(* Escapes \b and \uXXXX are outside the model's alphabet, and so are      *)
(* fractions, exponents, and members and elements of the other kinds.      *)
(***************************************************************************)

\* The white space JSON allows between tokens.
RECURSIVE SkipJSONWhite(_, _)
SkipJSONWhite(s, i) ==
    IF CharAt(s, i) \in {" ", "\t", "\n", "\r"} THEN SkipJSONWhite(s, i + 1) ELSE i

\* JSON.parse throws a SyntaxError with this message.
SyntaxError(message) ==
    [ok |-> FALSE, kind |-> "error", v |-> message, next |-> 0]

ParseOk(kind, v, next) == [ok |-> TRUE, kind |-> kind, v |-> v, next |-> next]

\* The error the parser reports with a message of its own at position i.
ErrorAt(message, i) ==
    SyntaxError(message \o " in JSON at position " \o NatToString(i - 1))

\* A text of the language that the model does not represent.
Unmodelled == SyntaxError("")

\* The whole texts the parser names in full in its message.
SpecialStrings == {"[object Object]", "undefined", "Infinity", "NaN"}

\* The most units of the text the message shows on either side of a token.
MaxContextCharacters == 10

\* The error for the unit at position i where it cannot stand (the end of the
\* text where i is past it): a number or a string is named by its kind and
\* position, any other unit is quoted together with the text, or with the
\* part of the text around it when the text has 21 units or more.
UnexpectedToken(s, i) ==
    LET c   == CharAt(s, i)
        pos == i - 1
    IN  IF i > Len(s) THEN SyntaxError("Unexpected end of JSON input")
        ELSE IF c = "-" \/ IsDigit(c) THEN ErrorAt("Unexpected number", i)
        ELSE IF c = "\"" THEN ErrorAt("Unexpected string", i)
        ELSE IF s \in SpecialStrings
             THEN SyntaxError("\"" \o s \o "\" is not valid JSON")
        ELSE SyntaxError(
                 "Unexpected token '" \o c \o "', " \o
                 (IF Len(s) < 2 * MaxContextCharacters + 1
                  THEN "\"" \o s \o "\""
                  ELSE IF pos < MaxContextCharacters
                  THEN "\"" \o Slice(s, 0, pos + MaxContextCharacters) \o "\"..."
                  ELSE IF pos < Len(s) - MaxContextCharacters
                  THEN "...\"" \o Slice(s, pos - MaxContextCharacters,
                                        pos + MaxContextCharacters) \o "\"..."
                  ELSE "...\"" \o Slice(s, pos - MaxContextCharacters, Len(s))
                       \o "\"")
                 \o " is not valid JSON")

\* The unit an escape \e stands for, undefined for an escape JSON does not have.
Unescape(e) ==
    CASE e = "\"" -> Some("\"")
      [] e = "\\" -> Some("\\")
      [] e = "/"  -> Some("/")
      [] e = "n"  -> Some("\n")
      [] e = "t"  -> Some("\t")
      [] e = "r"  -> Some("\r")
      [] e = "f"  -> Some("\f")
      [] OTHER    -> Undefined

\* obj with obj[key] = value (a repeated key keeps its last value).
Put(obj, key, value) ==
    [k \in DOMAIN obj \cup {key} |-> IF k = key THEN value ELSE obj[k]]

EmptyObject == [k \in {} |-> ""]

\* The rest of a string whose opening quote is before position i.  A text
\* that ends in the backslash of an escape is reported as ending early.
RECURSIVE ScanString(_, _, _)
ScanString(s, i, acc) ==
    LET c == CharAt(s, i)
    IN  IF i > Len(s) THEN ErrorAt("Unterminated string", i)
        ELSE IF c = "\"" THEN ParseOk("string", acc, i + 1)
        ELSE IF c = "\\"
             THEN LET u == Unescape(CharAt(s, i + 1))
                  IN  IF i + 1 > Len(s) THEN UnexpectedToken(s, i + 1)
                      ELSE IF CharAt(s, i + 1) \in {"b", "u"} THEN Unmodelled
                      ELSE IF u = Undefined
                      THEN ErrorAt("Bad escaped character", i + 1)
                      ELSE ScanString(s, i + 2, acc \o u[1])
        ELSE IF c \in {"\n", "\t", "\r", "\f"}
             THEN ErrorAt("Bad control character in string literal", i)
        ELSE ScanString(s, i + 1, acc \o c)

\* An integer literal at position i: an optional minus sign, then 0 or a run
\* of digits that does not start with 0.
ParseNumber(s, i) ==
    LET neg == CharAt(s, i) = "-"
        j   == IF neg THEN i + 1 ELSE i
        run == DigitRun(s, j, <<0, FALSE>>)
        end == IF CharAt(s, j) = "0" THEN j + 1
               ELSE CHOOSE e \in j..(Len(s) + 1) :
                        /\ \A p \in j..(e - 1) : IsDigit(CharAt(s, p))
                        /\ ~IsDigit(CharAt(s, e))
    IN  IF CharAt(s, j) = "0" /\ IsDigit(CharAt(s, j + 1))
        THEN ErrorAt("Unexpected number", j + 1)
        ELSE IF ~IsDigit(CharAt(s, j))
        THEN ErrorAt("No number after minus sign", j)
        ELSE IF CharAt(s, end) \in {".", "e", "E"} THEN Unmodelled
        ELSE ParseOk("number",
                     IF CharAt(s, j) = "0" THEN 0
                     ELSE IF neg THEN 0 - run[1] ELSE run[1],
                     end)

\* One of the words null, true and false at position i, where its first unit
\* stands: the value, or the error for the first unit that is not the word's.
Literal(s, i, word, value) ==
    LET Differs(k) == CharAt(s, i + k - 1) # CharAt(word, k)
    IN  IF \E k \in 2..Len(word) : Differs(k)
        THEN UnexpectedToken(s, i - 1 + CHOOSE k \in 2..Len(word) :
                                        /\ Differs(k)
                                        /\ \A q \in 2..(k - 1) : ~Differs(q))
        ELSE value

RECURSIVE ParseValue(_, _)
RECURSIVE ParseMembers(_, _, _)
RECURSIVE ParseElements(_, _, _)

\* The members of an object after its "{" (acc is empty) or after a ",".
\* The parser has messages of its own for what stands in place of the first
\* member's name and colon, and of a later member's name; what stands in
\* place of a later member's colon is reported as any unexpected unit is.
ParseMembers(s, i, acc) ==
    LET j == SkipJSONWhite(s, i)
        k == ScanString(s, j + 1, "")
        c == SkipJSONWhite(s, k.next)
        m == ParseValue(s, c + 1)
        e == SkipJSONWhite(s, m.next)
    IN  IF CharAt(s, j) # "\""
        THEN ErrorAt(IF DOMAIN acc = {} THEN "Expected property name or '}'"
                     ELSE "Expected double-quoted property name", j)
        ELSE IF ~k.ok THEN k
        ELSE IF CharAt(s, c) # ":"
        THEN IF DOMAIN acc = {}
             THEN ErrorAt("Expected ':' after property name", c)
             ELSE UnexpectedToken(s, c)
        ELSE IF ~m.ok THEN m
        ELSE IF m.kind # "string" THEN Unmodelled
        ELSE IF CharAt(s, e) = "," THEN ParseMembers(s, e + 1, Put(acc, k.v, m.v))
        ELSE IF CharAt(s, e) = "}" THEN ParseOk("object", Put(acc, k.v, m.v), e + 1)
        ELSE ErrorAt("Expected ',' or '}' after property value", e)

\* The elements of an array after its "[" or after a ",".
ParseElements(s, i, acc) ==
    LET m == ParseValue(s, i)
        e == SkipJSONWhite(s, m.next)
    IN  IF ~m.ok THEN m
        ELSE IF m.kind # "object" THEN Unmodelled
        ELSE IF CharAt(s, e) = "," THEN ParseElements(s, e + 1, Append(acc, m.v))
        ELSE IF CharAt(s, e) = "]" THEN ParseOk("array", Append(acc, m.v), e + 1)
        ELSE ErrorAt("Expected ',' or ']' after array element", e)

ParseValue(s, i) ==
    LET j == SkipJSONWhite(s, i)
        c == CharAt(s, j)
    IN  CASE c = "\"" -> ScanString(s, j + 1, "")
          [] c = "{"  -> IF CharAt(s, SkipJSONWhite(s, j + 1)) = "}"
                         THEN ParseOk("object", EmptyObject, SkipJSONWhite(s, j + 1) + 1)
                         ELSE ParseMembers(s, j + 1, EmptyObject)
          [] c = "["  -> IF CharAt(s, SkipJSONWhite(s, j + 1)) = "]"
                         THEN ParseOk("array", <<>>, SkipJSONWhite(s, j + 1) + 1)
                         ELSE ParseElements(s, j + 1, <<>>)
          [] c = "n"  -> Literal(s, j, "null", ParseOk("null", <<>>, j + 4))
          [] c = "t"  -> Literal(s, j, "true", ParseOk("boolean", TRUE, j + 4))
          [] c = "f"  -> Literal(s, j, "false", ParseOk("boolean", FALSE, j + 5))
          [] c = "-" \/ IsDigit(c) -> ParseNumber(s, j)
          [] OTHER    -> UnexpectedToken(s, j)

\* JSON.parse(s): one value, white space around it, and nothing else.
JSONParse(s) ==
    The({ The({ IF m.ok /\ SkipJSONWhite(text, m.next) # Len(text) + 1
                THEN SyntaxError(
                         "Unexpected non-whitespace character after JSON"
                         \o " at position "
                         \o NatToString(SkipJSONWhite(text, m.next) - 1))
                ELSE m :
                m \in {ParseValue(text, 1)} }) :
          text \in {s} })

(***************************************************************************)
(* The booking codec: create-checkout-session's metadata and its decoders  *)
(***************************************************************************)

\* The most units one metadata value holds.
ChunkSize == 500

\* Math.floor(a / b) and Math.ceil(a / b) for a >= 0, b > 0.
Floor(a, b) == a \div b

Ceil(a, b) == IF a % b = 0 THEN a \div b ELSE (a \div b) + 1

\* `bookings_${k}`
ChunkKey(k) == "bookings_" \o NatToString(k)

\* cart.map(b => ({date: b.date || b.dateStr, time, location, displayDate}))
SlimBooking(b) ==
    ObjectOf([date        |-> OrElse(Get(b, "date"), Get(b, "dateStr")),
              time        |-> Get(b, "time"),
              location    |-> Get(b, "location"),
              displayDate |-> Get(b, "displayDate")])

Slim(cart) == [i \in 1..Len(cart) |-> SlimBooking(cart[i])]

\* for (let i = 0; i < bookingsStr.length; i += 500) meta[`bookings_${...}`] = ...
RECURSIVE ChunkLoop(_, _, _)
ChunkLoop(bookingsStr, i, meta) ==
    IF i < Len(bookingsStr)
    THEN ChunkLoop(bookingsStr, i + ChunkSize,
                   Put(meta, ChunkKey(Floor(i, ChunkSize)),
                       Slice(bookingsStr, i, i + ChunkSize)))
    ELSE meta

\* Mutant of FitsOneValue: the comparison written < instead of <=.
FitsOneValueStrict(bookingsStr) == Len(bookingsStr) < ChunkSize

\* Whether the blob goes under the single key.
FitsOneValue(bookingsStr) == Len(bookingsStr) <= ChunkSize

\* String(Math.ceil(bookingsStr.length / 500))
ChunkCount(bookingsStr) == NatToString(Ceil(Len(bookingsStr), ChunkSize))

\* The metadata a checkout attaches to its session.
EncodeMetadata(body) ==
    LET meta == ObjectOf([customerName |-> Get(body, "customerName"),
                          company      |-> Get(body, "company"),
                          product      |-> Get(body, "product"),
                          phone        |-> Get(body, "phone")])
        bookingsStr == JSONStringify(Slim(body.cart))
    IN  IF FitsOneValue(bookingsStr)
        THEN Put(meta, "bookings", bookingsStr)
        ELSE Put(ChunkLoop(bookingsStr, 0, meta),
                 "bookings_chunks", ChunkCount(bookingsStr))

\* Mutant of JoinChunks: the chunks joined from the last index down.
RECURSIVE JoinChunksBackwards(_, _, _)
JoinChunksBackwards(metadata, i, chunks) ==
    IF i < chunks
    THEN JoinChunksBackwards(metadata, i + 1, chunks)
         \o OrElse(Get(metadata, ChunkKey(i)), Some(""))[1]
    ELSE ""

\* for (let i = 0; i < chunks; i++) bookingsStr += metadata[`bookings_${i}`] || ''
RECURSIVE JoinChunks(_, _, _)
JoinChunks(metadata, i, chunks) ==
    IF i < chunks
    THEN OrElse(Get(metadata, ChunkKey(i)), Some(""))[1]
         \o JoinChunks(metadata, i + 1, chunks)
    ELSE ""

\* The number of rounds of a loop `i < chunks` from 0: none when chunks is NaN.
LoopBound(n) == IF n = Undefined THEN 0 ELSE n[1]

\* The text extractBookings hands to JSON.parse; undefined when the metadata has
\* neither form.
ExtractBookingsStr(metadata) ==
    IF Truthy(Get(metadata, "bookings")) THEN Get(metadata, "bookings")
    ELSE IF Truthy(Get(metadata, "bookings_chunks"))
         THEN Some(JoinChunks(metadata, 0,
                              LoopBound(ParseInt(metadata["bookings_chunks"]))))
         ELSE Undefined

EmptyList == [kind |-> "array", v |-> <<>>]

\* extractBookings(session): the value it returns, as [kind, v].
ExtractBookings(session) ==
    LET bookingsStr == ExtractBookingsStr(session.metadata)
        parsed      == JSONParse(bookingsStr[1])
    IN  IF ~Truthy(bookingsStr) THEN EmptyList
        ELSE IF ~parsed.ok THEN EmptyList
        ELSE [kind |-> parsed.kind, v |-> parsed.v]

\* verify-payment's own reassembly of the text (it always yields a string).
VerifyBookingsStr(metadata) ==
    IF Truthy(Get(metadata, "bookings")) THEN metadata["bookings"]
    ELSE JoinChunks(metadata, 0,
                    LoopBound(ParseInt(OrElse(Get(metadata, "bookings_chunks"),
                                              Some("0"))[1])))

(***************************************************************************)
(* Inputs: the carts and customers the requests are drawn from             *)
(***************************************************************************)

\* The longest cart of the model.
MaxCart == 11

\* Four demo slots as the booking page sends them.  The third comes from a
\* client that names the date dateStr and carries units JSON must escape.
SlotTemplates ==
    << [date |-> "2025-03-14", time |-> "11:00 AM", location |-> "Mill Valley",
        displayDate |-> "Friday, March 14"],
       [date |-> "2025-03-15", time |-> "3:00 PM", location |-> "Corte Madera",
        displayDate |-> "Saturday, March 15"],
       [dateStr |-> "2025-03-16", time |-> "11:00 AM",
        location |-> "Tam \"Junction\"", displayDate |-> "Sun\\Mar 16\n"],
       [date |-> "2025-12-31", time |-> "3:00 PM",
        location |-> "Strawberry Village", displayDate |-> "Wed, Dec 31st"] >>

\* The cart of n slots that starts at template o and steps by st templates
\* (st = 0: n times the same slot).
CartOf(n, o, st) ==
    [i \in 1..n |->
        SlotTemplates[((o + st * (i - 1)) % Len(SlotTemplates)) + 1]]

Carts ==
    {CartOf(n, o, st) : n \in 0..MaxCart, o \in 0..(Len(SlotTemplates) - 1),
                        st \in 0..1}

Customers ==
    { [customerEmail |-> "ann@acme.test", customerName |-> "Ann",
       company |-> "Acme", product |-> "Jam", phone |-> "415-555-0100"],
      [customerEmail |-> "bob@bread.test", customerName |-> "Bob",
       company |-> "Bread Co", product |-> "Rye"] }

\* req.body of a checkout: a customer's fields and a cart.
CheckoutBody(customer, cart) ==
    [k \in DOMAIN customer \cup {"cart"} |->
        IF k = "cart" THEN cart ELSE customer[k]]

(***************************************************************************)
(* The state: requests, the payment processor, the email provider          *)
(***************************************************************************)

Idle == [pc |-> "idle"]

\* An entry of the log of calls the server makes to the processor: the API
\* method, the request being handled, and the id the call is about if any.
Call(op, r, arg) == [op |-> op, req |-> r, arg |-> arg]

\* res.status(status).json(body), which ends the handling of the request.
Respond(request, status, body) ==
    [pc |-> "done", request |-> request, status |-> status, body |-> body]

\* res.json(body)
RespondOk(request, body) == Respond(request, 200, body)

\* The session ids the processor hands out.
SessionId(n) == "cs_" \o NatToString(n)

\* The index of the processor's session with this id, 0 when it has none.
SessionIndex(id) ==
    IF \E i \in 1..Len(stripe.sessions) : stripe.sessions[i].id = id
    THEN CHOOSE i \in 1..Len(stripe.sessions) : stripe.sessions[i].id = id
    ELSE 0

\* `${x}` for an optional string.
Interpolate(m) == IF m = Undefined THEN "undefined" ELSE m[1]

\* The fixed price of a slot, in cents.
UnitAmount == 3000

\* Mutant of LineItem: one location priced apart.
LineItemByLocation(item) ==
    [price_data |->
        [currency     |-> "usd",
         product_data |->
            [name        |-> "Demo at Woodlands Market - "
                             \o Interpolate(Get(item, "location")),
             description |-> Interpolate(Get(item, "displayDate")) \o " * "
                             \o Interpolate(Get(item, "time"))],
         unit_amount  |-> IF Get(item, "location") = Some("Mill Valley")
                          THEN 3500 ELSE 3000],
     quantity |-> 1]

\* cart.map(item => ({price_data: {...}, quantity: 1})); the bullet between
\* the display date and the time is written "*".
LineItem(item) ==
    [price_data |->
        [currency     |-> "usd",
         product_data |->
            [name        |-> "Demo at Woodlands Market - "
                             \o Interpolate(Get(item, "location")),
             description |-> Interpolate(Get(item, "displayDate")) \o " * "
                             \o Interpolate(Get(item, "time"))],
         unit_amount  |-> UnitAmount],
     quantity |-> 1]

LineItems(cart) == [i \in 1..Len(cart) |-> LineItem(cart[i])]

RECURSIVE SumAmounts(_, _)
SumAmounts(items, i) ==
    IF i > Len(items) THEN 0
    ELSE items[i].price_data.unit_amount * items[i].quantity
         + SumAmounts(items, i + 1)

\* Mutant of NewSession: a processor that answers a repeated create call with
\* the id of the session it opened for the same metadata and line items.
NewSessionSameId(params) ==
    LET Same(s) == s.metadata = params.metadata
                   /\ s.line_items = params.line_items
        earlier == SelectSeq(stripe.sessions, Same)
    IN  [id             |-> IF Len(earlier) > 0 THEN earlier[1].id
                            ELSE SessionId(Len(stripe.sessions) + 1),
         payment_status |-> "unpaid",
         customer_email |-> params.customer_email,
         amount_total   |-> SumAmounts(params.line_items, 1),
         created        |-> env.now.seconds,
         metadata       |-> params.metadata,
         line_items     |-> params.line_items,
         payment_intent |-> Undefined]

\* The session the processor opens for a sessions.create call: unpaid, its
\* total the sum of its line items.
NewSession(params) ==
    [id             |-> SessionId(Len(stripe.sessions) + 1),
     payment_status |-> "unpaid",
     customer_email |-> params.customer_email,
     amount_total   |-> SumAmounts(params.line_items, 1),
     created        |-> env.now.seconds,
     metadata       |-> params.metadata,
     line_items     |-> params.line_items,
     payment_intent |-> Undefined]

(***************************************************************************)
(* POST /api/create-checkout-session                                       *)
(***************************************************************************)

\* The handler up to its await of stripe.checkout.sessions.create.  A body
\* with no cart makes cart.length throw a TypeError, which the catch turns
\* into a 500 with the error's message.
CreateCheckoutSession(r, body) ==
    /\ reqs[r].pc = "idle"
    /\ IF "cart" \notin DOMAIN body
       THEN /\ reqs' = [reqs EXCEPT ![r] =
                   Respond(body, 500,
                           [error |-> "Cannot read properties of undefined "
                                      \o "(reading 'length')",
                            type  |-> "unknown"])]
            /\ UNCHANGED stripe
       ELSE LET params == [line_items     |-> LineItems(body.cart),
                           mode           |-> "payment",
                           customer_email |-> Get(body, "customerEmail"),
                           metadata       |-> EncodeMetadata(body)]
            IN  /\ reqs' = [reqs EXCEPT ![r] =
                       [pc |-> "sessions.create", request |-> body,
                        params |-> params]]
                /\ stripe' = [stripe EXCEPT !.calls =
                       Append(@, Call("sessions.create", r, Undefined))]
    /\ UNCHANGED <<env, resend>>

\* The processor opens the session; the handler answers {sessionId, url}.
SessionsCreateReturns(r) ==
    /\ reqs[r].pc = "sessions.create"
    /\ LET session == NewSession(reqs[r].params)
       IN  /\ stripe' = [stripe EXCEPT !.sessions = Append(@, session)]
           /\ reqs' = [reqs EXCEPT ![r] =
                  RespondOk(reqs[r].request,
                            [sessionId |-> session.id,
                             url |-> "https://checkout.stripe.test/"
                                     \o session.id])]
    /\ UNCHANGED <<env, resend>>

\* The processor's errors a create call can end with.
StripeErrors ==
    { [type |-> Some("StripeCardError"), message |-> "card declined"],
      [type |-> Undefined, message |-> "socket hang up"] }

\* The processor refuses; the handler answers 500 {error, type}.
SessionsCreateThrows(r, error) ==
    /\ reqs[r].pc = "sessions.create"
    /\ reqs' = [reqs EXCEPT ![r] =
           Respond(reqs[r].request, 500,
                   [error |-> error.message,
                    type  |-> OrElse(error.type, Some("unknown"))[1]])]
    /\ UNCHANGED <<env, stripe, resend>>

(***************************************************************************)
(* Dates: the Date object's arithmetic, in the server's time zone          *)
(* (env.tz, minutes east of UTC, taken as fixed over the year)             *)
(***************************************************************************)

\* Days since 1970-01-01 of a civil date (proleptic Gregorian), year >= 1.
DaysFromCivil(y, m, d) ==
    LET yy  == IF m <= 2 THEN y - 1 ELSE y
        era == yy \div 400
        yoe == yy - era * 400
        mp  == IF m > 2 THEN m - 3 ELSE m + 9
        doy == (153 * mp + 2) \div 5 + d - 1
        doe == yoe * 365 + yoe \div 4 - yoe \div 100 + doy
    IN  era * 146097 + doe - 719468

\* The civil date of a day number.
CivilFromDays(z) ==
    LET zz  == z + 719468
        era == zz \div 146097
        doe == zz - era * 146097
        yoe == (doe - doe \div 1460 + doe \div 36524 - doe \div 146096) \div 365
        doy == doe - (365 * yoe + yoe \div 4 - yoe \div 100)
        mp  == (5 * doy + 2) \div 153
        d   == doy - (153 * mp + 2) \div 5 + 1
        m   == IF mp < 10 THEN mp + 3 ELSE mp - 9
        y   == yoe + era * 400 + (IF m <= 2 THEN 1 ELSE 0)
    IN  [year |-> y, month |-> m, day |-> d]

\* getFullYear(), getMonth() + 1, getDate(), getDay() of new Date(seconds * 1000).
LocalDate(seconds) ==
    LET local == seconds + env.tz * 60
        days  == local \div 86400
        civil == CivilFromDays(days)
    IN  [year |-> civil.year, month |-> civil.month, day |-> civil.day,
         weekday |-> (days + 4) % 7]

\* String(n).padStart(2, '0')
Pad2(n) == IF n < 10 THEN "0" \o NatToString(n) ELSE NatToString(n)

\* d.getFullYear() + '-' + String(d.getMonth() + 1).padStart(2, '0')
MonthKey(year, month) == NatToString(year) \o "-" \o Pad2(month)

\* new Date(seconds * 1000).toISOString(), for a year of four digits.
ToISOString(seconds) ==
    LET civil == CivilFromDays(seconds \div 86400)
        sod   == seconds % 86400
    IN  NatToString(civil.year) \o "-" \o Pad2(civil.month) \o "-"
        \o Pad2(civil.day) \o "T" \o Pad2(sod \div 3600) \o ":"
        \o Pad2((sod % 3600) \div 60) \o ":" \o Pad2(sod % 60) \o ".000Z"

\* (cents / 100).toFixed(2) for a whole number of cents.
ToFixed2(cents) ==
    NatToString(cents \div 100) \o "." \o Pad2(cents % 100)

(***************************************************************************)
(* The admin guard                                                         *)
(***************************************************************************)

\* An admin request with the password in the header, in the query, or absent.
AdminRequest(route, header, query) ==
    [route   |-> route,
     headers |-> ObjectOf(("x-admin-password" :> header)),
     query   |-> ObjectOf([admin_password |-> query])]

\* req.headers['x-admin-password'] || req.query.admin_password
SuppliedPassword(request) ==
    OrElse(Get(request.headers, "x-admin-password"),
           Get(request.query, "admin_password"))

\* adminAuth with a server that has no secret letting every request through.
AdminAuthOpenWhenUnset(request) ==
    IF ~Truthy(env.ADMIN_PASSWORD) THEN Undefined
    ELSE IF SuppliedPassword(request) # env.ADMIN_PASSWORD
         THEN Some([status |-> 401, body |-> [error |-> "Invalid admin password"]])
         ELSE Undefined

\* adminAuth: the status and body it ends the request with, undefined when it
\* calls next().
AdminAuth(request) ==
    IF ~Truthy(env.ADMIN_PASSWORD)
    THEN Some([status |-> 500, body |-> [error |-> "ADMIN_PASSWORD not configured"]])
    ELSE IF SuppliedPassword(request) # env.ADMIN_PASSWORD
         THEN Some([status |-> 401, body |-> [error |-> "Invalid admin password"]])
         ELSE Undefined

\* The request as the guard ends it when it does not call next().
Denied(request) ==
    Respond(request, AdminAuth(request)[1].status, AdminAuth(request)[1].body)

(***************************************************************************)
(* The processor's sessions as the handlers read them                      *)
(***************************************************************************)

\* s.payment_intent?.charges?.data?.[0], undefined when any link is missing.
FirstCharge(s) ==
    IF s.payment_intent = Undefined THEN Undefined
    ELSE IF s.payment_intent[1].charges = Undefined THEN Undefined
    ELSE IF Len(s.payment_intent[1].charges[1].data) = 0 THEN Undefined
    ELSE Some(s.payment_intent[1].charges[1].data[1])

\* s.payment_intent?.charges?.data?.[0]?.refunded || false
Refunded(s) == FirstCharge(s) # Undefined /\ FirstCharge(s)[1].refunded

\* s.payment_intent?.charges?.data?.[0]?.amount_refunded || 0
RefundAmount(s) ==
    IF FirstCharge(s) = Undefined THEN 0 ELSE FirstCharge(s)[1].amount_refunded

\* s.payment_status === 'paid' && s.metadata.customerName
PaidWithName(s) ==
    s.payment_status = "paid" /\ Truthy(Get(s.metadata, "customerName"))

\* The processor's sessions, most recent first.
NewestFirst(sessions) ==
    [i \in 1..Len(sessions) |-> sessions[Len(sessions) + 1 - i]]

\* The most sessions one list call returns.
PageLimit == 100

\* stripe.checkout.sessions.list: the page after the cursor (an id, or
\* undefined for the first page) of the sessions created at or after gte.
SessionsList(startingAfter, gte) ==
    LET InRange(s) == s.created >= gte
        all   == SelectSeq(NewestFirst(stripe.sessions), InRange)
        at    == IF startingAfter = Undefined THEN 0
                 ELSE IF \E i \in 1..Len(all) : all[i].id = startingAfter[1]
                      THEN CHOOSE i \in 1..Len(all) : all[i].id = startingAfter[1]
                      ELSE Len(all)
        last  == IF at + PageLimit < Len(all) THEN at + PageLimit ELSE Len(all)
    IN  [data |-> SubSeq(all, at + 1, last), has_more |-> last < Len(all)]

(***************************************************************************)
(* GET /api/admin/bookings                                                 *)
(***************************************************************************)

\* One row of the listing.
BookingRecord(s) ==
    [id              |-> s.id,
     paymentIntentId |-> IF s.payment_intent = Undefined THEN Undefined
                         ELSE Some(s.payment_intent[1].id),
     customerName    |-> Get(s.metadata, "customerName"),
     email           |-> s.customer_email,
     company         |-> Get(s.metadata, "company"),
     product         |-> Get(s.metadata, "product"),
     phone           |-> Get(s.metadata, "phone"),
     bookings        |-> ExtractBookings(s),
     totalAmount     |-> ToFixed2(s.amount_total),
     createdAt       |-> ToISOString(s.created),
     status          |-> IF Refunded(s) THEN "refunded" ELSE "confirmed",
     refundAmount    |-> ToFixed2(RefundAmount(s))]

\* sessions.data.filter(...).map(...)
BookingRecords(data) ==
    LET paid == SelectSeq(data, PaidWithName)
    IN  [i \in 1..Len(paid) |-> BookingRecord(paid[i])]

\* The guard, then the handler up to its await of the list call.
AdminBookings(r, header, query) ==
    LET request == AdminRequest("bookings", header, query)
    IN  /\ reqs[r].pc = "idle"
        /\ IF AdminAuth(request) # Undefined
           THEN /\ reqs' = [reqs EXCEPT ![r] = Denied(request)]
                /\ UNCHANGED stripe
           ELSE /\ reqs' = [reqs EXCEPT ![r] =
                       [pc |-> "bookings.list", request |-> request]]
                /\ stripe' = [stripe EXCEPT !.calls =
                       Append(@, Call("sessions.list", r, Undefined))]
        /\ UNCHANGED <<env, resend>>

AdminBookingsListReturns(r) ==
    /\ reqs[r].pc = "bookings.list"
    /\ reqs' = [reqs EXCEPT ![r] =
           RespondOk(reqs[r].request,
                     [bookings |->
                         BookingRecords(SessionsList(Undefined, 0).data)])]
    /\ UNCHANGED <<env, stripe, resend>>

AdminBookingsListThrows(r, error) ==
    /\ reqs[r].pc = "bookings.list"
    /\ reqs' = [reqs EXCEPT ![r] =
           Respond(reqs[r].request, 500, [error |-> error.message])]
    /\ UNCHANGED <<env, stripe, resend>>

(***************************************************************************)
(* The customer on the processor's hosted payment page                     *)
(***************************************************************************)

\* The payment intent of a paid session as the processor returns it expanded:
\* with its charges listed, or (an API version without them) with none.
PaidIntent(session, listed) ==
    [id      |-> "pi_" \o session.id,
     charges |-> IF listed
                 THEN Some([data |-> <<[refunded |-> FALSE,
                                        amount_refunded |-> 0]>>])
                 ELSE Undefined]

\* The customer pays session i.
CustomerPays(i) ==
    /\ i \in 1..Len(stripe.sessions)
    /\ stripe.sessions[i].payment_status = "unpaid"
    /\ stripe' = [stripe EXCEPT !.sessions[i] =
           [@ EXCEPT !.payment_status = "paid",
                     !.payment_intent =
                         Some(PaidIntent(stripe.sessions[i],
                                         stripe.listsCharges))]]
    /\ UNCHANGED <<env, resend, reqs>>

(***************************************************************************)
(* The calendar attachment                                                 *)
(***************************************************************************)

\* Whether s has this shape: four digits, "-", two digits, "-", two digits.
IsISODate(s) ==
    /\ Len(s) = 10
    /\ \A i \in {1, 2, 3, 4, 6, 7, 9, 10} : IsDigit(CharAt(s, i))
    /\ CharAt(s, 5) = "-" /\ CharAt(s, 8) = "-"

\* new Date(text).getTime() / 1000 for an optional text: a date of the form
\* YYYY-MM-DD is midnight UTC of that day; undefined stands for NaN (an
\* Invalid Date), which is what every other text of the model gives.
DateSeconds(text) ==
    IF text = Undefined \/ ~IsISODate(text[1]) THEN Undefined
    ELSE LET y == ParseInt(Slice(text[1], 0, 4))[1]
             m == ParseInt(Slice(text[1], 5, 7))[1]
             d == ParseInt(Slice(text[1], 8, 10))[1]
         IN  IF m \in 1..12 /\ d \in 1..31
             THEN Some(DaysFromCivil(y, m, d) * 86400)
             ELSE Undefined

\* s.includes(sub)
Includes(s, sub) ==
    \E i \in 1..(Len(s) + 1) : Slice(s, i - 1, i - 1 + Len(sub)) = sub

\* s.split(':')[0]
BeforeColon(s) ==
    IF Includes(s, ":")
    THEN Slice(s, 0, (CHOOSE i \in 1..Len(s) :
                         /\ CharAt(s, i) = ":"
                         /\ \A j \in 1..(i - 1) : CharAt(s, j) # ":") - 1)
    ELSE s

\* Mutant of StartHour: 12 added to every PM hour, noon included.
StartHourNoonAdded(time) ==
    LET hours == ParseInt(BeforeColon(time))
        isPM  == Includes(time, "PM")
    IN  IF hours = Undefined THEN Undefined
        ELSE IF isPM THEN Some(hours[1] + 12)
        ELSE IF hours[1] = 12 THEN Some(0)
        ELSE hours

\* The hour of day generateICS starts the event at; undefined stands for NaN.
StartHour(time) ==
    LET hours == ParseInt(BeforeColon(time))
        isPM  == Includes(time, "PM")
    IN  IF hours = Undefined THEN Undefined
        ELSE IF isPM /\ hours[1] # 12 THEN Some(hours[1] + 12)
        ELSE IF ~isPM /\ hours[1] = 12 THEN Some(0)
        ELSE hours

\* String(n).padStart(2, '0') of an hour that may be NaN or negative.
PadHour(h) ==
    IF h = Undefined THEN "NaN"
    ELSE IF h[1] < 0 THEN "-" \o NatToString(0 - h[1])
    ELSE Pad2(h[1])

\* `${year}${month}${day}` of new Date(item.date), read in the server's zone.
DateStamp(date) ==
    IF DateSeconds(date) = Undefined THEN "NaNNaNNaN"
    ELSE LET local == LocalDate(DateSeconds(date)[1])
         IN  NatToString(local.year) \o Pad2(local.month) \o Pad2(local.day)

\* Date.now().toString()
NowString ==
    NatToString(env.now.seconds)
    \o (IF env.now.millis < 100 THEN "0" ELSE "") \o Pad2(env.now.millis)

\* One VEVENT of the calendar document.
CalendarEvent(item, index, company, product) ==
    LET start == StartHour(item.time)
        end   == IF start = Undefined THEN Undefined ELSE Some(start[1] + 3)
    IN  [dtstart  |-> DateStamp(Get(item, "date")) \o "T" \o PadHour(start) \o "0000",
         dtend    |-> DateStamp(Get(item, "date")) \o "T" \o PadHour(end) \o "0000",
         summary  |-> "Product Demo - " \o Interpolate(company),
         location |-> "Woodlands Market, " \o Interpolate(Get(item, "location"))
                      \o ", CA",
         description |-> "Product: " \o Interpolate(product)
                         \o "\\n3-hour product demonstration slot.",
         uid      |-> "wm-demo-" \o NowString \o "-" \o NatToString(index)
                      \o "@woodlandsmarket.com"]

\* Whether generateICS throws: item.time.split of a slot with no time.
GenerateICSThrows(bookings) ==
    \E i \in 1..Len(bookings) : "time" \notin DOMAIN bookings[i]

\* generateICS(bookings, company, product): the events of the document, one
\* per booking; index is the slot's 0-based position.
GenerateICS(bookings, company, product) ==
    [i \in 1..Len(bookings) |-> CalendarEvent(bookings[i], i - 1, company, product)]

(***************************************************************************)
(* GET /api/verify-payment/:sessionId and sendConfirmationEmail            *)
(***************************************************************************)

\* Mutant of IsPaid: any status but unpaid passes.
IsPaidOrFree(session) == session.payment_status # "unpaid"

\* session.payment_status === 'paid'
IsPaid(session) == session.payment_status = "paid"

\* s.slice(-n)
LastChars(s, n) == IF Len(s) <= n THEN s ELSE SubSeq(s, Len(s) - n + 1, Len(s))

\* `WM-${Date.now().toString().slice(-8)}`
ConfirmationNumber == "WM-" \o LastChars(NowString, 8)

\* The request answered from the handler's scope after it retrieved a session.
RespondAfter(request, session, status, body) ==
    [pc |-> "done", request |-> request, session |-> session,
     status |-> status, body |-> body]

\* Whether building the email throws before anything is sent: bookings.map of
\* a value that is no array, or generateICS of a slot with no time.
BuildEmailThrows(bookings) ==
    bookings.kind # "array" \/ GenerateICSThrows(bookings.v)

\* The message of the TypeError thrown then: null has no map to read, any
\* other value that is no array has a map that is no function, and a slot
\* with no time has no split to read.
BuildEmailError(bookings) ==
    IF bookings.kind = "null"
    THEN "Cannot read properties of null (reading 'map')"
    ELSE IF bookings.kind # "array" THEN "bookings.map is not a function"
    ELSE "Cannot read properties of undefined (reading 'split')"

\* The message sendConfirmationEmail hands to the email provider; its
\* recipients are the array [to] of the session's customer_email.
ConfirmationEmail(session, bookings, confirmationNumber) ==
    [kind    |-> "confirmation",
     to      |-> <<session.customer_email>>,
     subject |-> "Demo Confirmed - " \o confirmationNumber,
     rows    |-> [i \in 1..Len(bookings) |->
                     [date     |-> Interpolate(Get(bookings[i], "displayDate")),
                      time     |-> Interpolate(Get(bookings[i], "time")),
                      location |-> "Woodlands Market - "
                                   \o Interpolate(Get(bookings[i], "location"))]],
     company   |-> Interpolate(Get(session.metadata, "company")),
     product   |-> Interpolate(Get(session.metadata, "product")),
     totalPaid |-> ToFixed2(session.amount_total),
     attachment |-> GenerateICS(bookings, Get(session.metadata, "company"),
                                Get(session.metadata, "product"))]

\* The handler up to its await of stripe.checkout.sessions.retrieve.
VerifyPayment(r, sessionId) ==
    /\ reqs[r].pc = "idle"
    /\ reqs' = [reqs EXCEPT ![r] =
           [pc |-> "verify.retrieve",
            request |-> [route |-> "verify", sessionId |-> sessionId]]]
    /\ stripe' = [stripe EXCEPT !.calls =
           Append(@, Call("sessions.retrieve", r, Some(sessionId)))]
    /\ UNCHANGED <<env, resend>>

\* The processor returns the session.  Unpaid: 400.  Paid: the bookings are
\* parsed and the email is built, either of which may throw into the catch
\* (500 with the error's message); otherwise the handler awaits the send.
VerifyRetrieveReturns(r) ==
    /\ reqs[r].pc = "verify.retrieve"
    /\ SessionIndex(reqs[r].request.sessionId) # 0
    /\ LET session  == stripe.sessions[SessionIndex(reqs[r].request.sessionId)]
           parsed   == JSONParse(VerifyBookingsStr(session.metadata))
           bookings == [kind |-> parsed.kind, v |-> parsed.v]
       IN  IF ~IsPaid(session)
           THEN /\ reqs' = [reqs EXCEPT ![r] =
                       RespondAfter(reqs[r].request, session, 400,
                                    [error |-> "Payment not completed"])]
                /\ UNCHANGED resend
           ELSE IF ~parsed.ok
           THEN /\ reqs' = [reqs EXCEPT ![r] =
                       RespondAfter(reqs[r].request, session, 500,
                                    [error |-> parsed.v])]
                /\ UNCHANGED resend
           ELSE IF BuildEmailThrows(bookings)
           THEN /\ reqs' = [reqs EXCEPT ![r] =
                       RespondAfter(reqs[r].request, session, 500,
                                    [error |-> BuildEmailError(bookings)])]
                /\ UNCHANGED resend
           ELSE /\ reqs' = [reqs EXCEPT ![r] =
                       [pc |-> "verify.send", request |-> reqs[r].request,
                        session |-> session, bookings |-> bookings.v,
                        confirmationNumber |-> ConfirmationNumber,
                        send |-> Len(resend.sends) + 1]]
                /\ resend' = [resend EXCEPT !.sends =
                       Append(@, [req |-> r, outcome |-> "pending",
                                  message |-> ConfirmationEmail(session,
                                      bookings.v, ConfirmationNumber)])]
    /\ UNCHANGED <<env, stripe>>

\* The retrieve call fails (no such session, or the processor is unreachable).
VerifyRetrieveThrows(r, error) ==
    /\ reqs[r].pc = "verify.retrieve"
    /\ reqs' = [reqs EXCEPT ![r] =
           Respond(reqs[r].request, 500, [error |-> error.message])]
    /\ UNCHANGED <<env, stripe, resend>>

\* What verify answers once sendConfirmationEmail has returned.
VerifySuccess(req) ==
    RespondAfter(req.request, req.session, 200,
                 [success            |-> TRUE,
                  confirmationNumber |-> req.confirmationNumber,
                  bookings           |-> req.bookings,
                  customerEmail      |-> req.session.customer_email])

\* The provider accepted the message.
VerifySendReturns(r) ==
    /\ reqs[r].pc = "verify.send"
    /\ resend' = [resend EXCEPT !.sends[reqs[r].send].outcome = "sent"]
    /\ reqs' = [reqs EXCEPT ![r] = VerifySuccess(reqs[r])]
    /\ UNCHANGED <<env, stripe>>

\* What verify answers once the send has thrown: sendConfirmationEmail catches
\* and logs the error, and returns.
VerifyAfterSendError(req) == VerifySuccess(req)

\* The provider refused the message or could not be reached.
VerifySendThrows(r) ==
    /\ reqs[r].pc = "verify.send"
    /\ resend' = [resend EXCEPT !.sends[reqs[r].send].outcome = "failed"]
    /\ reqs' = [reqs EXCEPT ![r] = VerifyAfterSendError(reqs[r])]
    /\ UNCHANGED <<env, stripe>>

(***************************************************************************)
(* GET /api/admin/stats                                                    *)
(***************************************************************************)

\* What a list handler answers, with the sessions it had fetched.
RespondListed(request, sessions, status, body) ==
    [pc |-> "done", request |-> request, sessions |-> sessions,
     status |-> status, body |-> body]

\* extractBookings(s).length, for a session whose metadata decodes to a list
\* (the empty list included), as those of the statistics below all do.
SlotCount(s) == Len(ExtractBookings(s).v)

\* s.amount_total / 100, exact for the whole-dollar totals the checkout
\* charges.
Dollars(s) == s.amount_total \div 100

\* n.toFixed(2) for a whole number n.
WholeFixed2(n) == NatToString(n) \o ".00"

\* Math.floor(new Date(now.getFullYear(), now.getMonth(), 1).getTime() / 1000)
StartOfMonth ==
    LET local == LocalDate(env.now.seconds)
    IN  DaysFromCivil(local.year, local.month, 1) * 86400 - env.tz * 60

\* totalDemos after the forEach over the sessions from the i-th on.
RECURSIVE TotalDemos(_, _)
TotalDemos(sessions, i) ==
    IF i > Len(sessions) THEN 0
    ELSE SlotCount(sessions[i]) + TotalDemos(sessions, i + 1)

\* totalRevenue after the forEach over the sessions from the i-th on.
RECURSIVE TotalRevenue(_, _)
TotalRevenue(sessions, i) ==
    IF i > Len(sessions) THEN 0
    ELSE Dollars(sessions[i]) + TotalRevenue(sessions, i + 1)

\* The market's share with the per-demo amount taken as half the fee.
MarketShareHalf(totalDemos) == totalDemos * 15

\* totalDemos * 20
MarketShare(totalDemos) == totalDemos * 20

\* totalDemos * 10
GrassrootsShare(totalDemos) == totalDemos * 10

\* The body of the stats response for the sessions the list call returned.
Stats(data) ==
    LET paidSessions == SelectSeq(data, PaidWithName)
        totalDemos   == TotalDemos(paidSessions, 1)
    IN  [thisMonthDemos    |-> totalDemos,
         totalRevenue      |-> WholeFixed2(TotalRevenue(paidSessions, 1)),
         marketShare       |-> WholeFixed2(MarketShare(totalDemos)),
         grassrootsShare   |-> WholeFixed2(GrassrootsShare(totalDemos)),
         demoFee           |-> "30.00",
         marketPerDemo     |-> "20.00",
         grassrootsPerDemo |-> "10.00"]

\* The guard, then the handler up to its await of the list call.
AdminStats(r, header, query) ==
    LET request == AdminRequest("stats", header, query)
    IN  /\ reqs[r].pc = "idle"
        /\ IF AdminAuth(request) # Undefined
           THEN /\ reqs' = [reqs EXCEPT ![r] = Denied(request)]
                /\ UNCHANGED stripe
           ELSE /\ reqs' = [reqs EXCEPT ![r] =
                       [pc |-> "stats.list", request |-> request,
                        startTimestamp |-> StartOfMonth]]
                /\ stripe' = [stripe EXCEPT !.calls =
                       Append(@, Call("sessions.list", r, Undefined))]
        /\ UNCHANGED <<env, resend>>

AdminStatsListReturns(r) ==
    /\ reqs[r].pc = "stats.list"
    /\ \E data \in {SessionsList(Undefined, reqs[r].startTimestamp).data} :
           reqs' = [reqs EXCEPT ![r] =
               RespondListed(reqs[r].request, data, 200, Stats(data))]
    /\ UNCHANGED <<env, stripe, resend>>

AdminStatsListThrows(r, error) ==
    /\ reqs[r].pc = "stats.list"
    /\ reqs' = [reqs EXCEPT ![r] =
           Respond(reqs[r].request, 500, [error |-> error.message])]
    /\ UNCHANGED <<env, stripe, resend>>

(***************************************************************************)
(* GET /api/admin/analytics                                                *)
(***************************************************************************)

\* The handler stops paging once it holds this many sessions.
MaxFetched == 300

\* The sessions behind the monthly, location, time and day figures, with the
\* refunded ones left in.
NotRefundedUnfiltered(paid) == paid

\* paid.filter(s => !(s.payment_intent?.charges?.data?.[0]?.refunded || false))
NotRefunded(paid) == SelectSeq(paid, LAMBDA s : ~Refunded(s))

\* Mutant of WindowKey: the month counted back within the current year.
WindowKeySameYear(i) ==
    LET local == LocalDate(env.now.seconds)
    IN  MonthKey(local.year, ((local.month - 1 - i) % 12) + 1)

\* The key of the first day of the month i months before the current one.
WindowKey(i) ==
    LET local == LocalDate(env.now.seconds)
        index == local.year * 12 + (local.month - 1) - i
    IN  MonthKey(index \div 12, (index % 12) + 1)

\* monthlyData as the first loop leaves it.
EmptyMonths ==
    [key \in {WindowKey(i) : i \in 0..5} |->
        [revenue |-> 0, demos |-> 0, market |-> 0, grassroots |-> 0]]

\* The month key of a session's creation time.
CreatedKey(s) ==
    LET created == LocalDate(s.created)
    IN  MonthKey(created.year, created.month)

\* monthlyData after the forEach over the sessions from the i-th on.
RECURSIVE MonthlyData(_, _, _)
MonthlyData(sessions, i, monthlyData) ==
    IF i > Len(sessions) THEN monthlyData
    ELSE LET s        == sessions[i]
             key      == CreatedKey(s)
             numDemos == SlotCount(s)
         IN  The({ MonthlyData(sessions, i + 1, next) : next \in
                 { IF key \in DOMAIN monthlyData
                   THEN [monthlyData EXCEPT ![key] =
                            [revenue    |-> @.revenue + Dollars(s),
                             demos      |-> @.demos + numDemos,
                             market     |-> @.market + numDemos * 20,
                             grassroots |-> @.grassroots + numDemos * 10]]
                   ELSE monthlyData } })

\* The slots of the sessions from the i-th on, in the order the nested
\* forEach loops visit them.
RECURSIVE BookingsOf(_, _)
BookingsOf(sessions, i) ==
    IF i > Len(sessions) THEN <<>>
    ELSE ExtractBookings(sessions[i]).v \o BookingsOf(sessions, i + 1)

\* The names every object literal inherits from Object.prototype: obj[name]
\* is defined for them on an object that does not own them.
ObjectPrototype ==
    {"constructor", "toString", "toLocaleString", "valueOf", "hasOwnProperty",
     "isPrototypeOf", "propertyIsEnumerable", "__defineGetter__",
     "__defineSetter__", "__lookupGetter__", "__lookupSetter__", "__proto__"}

\* b.location || 'Unknown'
LocationOf(b) == OrElse(Get(b, "location"), Some("Unknown"))[1]

\* locationData after the slots from the i-th on.  For a location that names
\* an inherited member, locationData[loc] is that member, which is truthy: no
\* entry is created and the two updates land on the member, not on
\* locationData.
RECURSIVE LocationData(_, _, _)
LocationData(bookings, i, locationData) ==
    IF i > Len(bookings) THEN locationData
    ELSE LET loc == LocationOf(bookings[i])
             old == IF loc \in DOMAIN locationData THEN locationData[loc]
                    ELSE [demos |-> 0, revenue |-> 0]
         IN  The({ LocationData(bookings, i + 1, next) : next \in
                 { IF loc \notin DOMAIN locationData /\ loc \in ObjectPrototype
                   THEN locationData
                   ELSE Put(locationData, loc, [demos   |-> old.demos + 1,
                                                revenue |-> old.revenue + 30]) } })

\* The location loop reaches Object.prototype itself through the location
\* "__proto__": demos++ and revenue += 30 leave NaN under both names on it,
\* for every object of the process from then on.
Pollutes(bookings) ==
    \E i \in 1..Len(bookings) : LocationOf(bookings[i]) = "__proto__"

\* The names timeData inherits, given whether Object.prototype was polluted.
Inherited(polluted) ==
    ObjectPrototype \cup (IF polluted THEN {"demos", "revenue"} ELSE {})

\* NaN, which the response writes as null.
NaN == <<>>

\* timeData after the slots from the i-th on; a slot with no time counts
\* under the key "undefined".  For a time that names an inherited member,
\* timeData[b.time] is not undefined and ++ stores NaN, which stays NaN (the
\* entries holding NaN are those under an inherited name); the store to
\* "__proto__" creates no entry.
RECURSIVE TimeData(_, _, _, _)
TimeData(bookings, i, timeData, inherited) ==
    IF i > Len(bookings) THEN timeData
    ELSE LET time == Interpolate(Get(bookings[i], "time"))
         IN  The({ TimeData(bookings, i + 1, next, inherited) : next \in
                 { IF time \in DOMAIN timeData
                   THEN Put(timeData, time,
                            IF time \in inherited THEN NaN
                            ELSE timeData[time] + 1)
                   ELSE IF time = "__proto__" THEN timeData
                   ELSE IF time \in inherited THEN Put(timeData, time, NaN)
                   ELSE Put(timeData, time, 1) } })

DayNames == <<"Sun", "Mon", "Tue", "Wed", "Thu", "Fri", "Sat">>

\* dayData after the slots from the i-th on: a slot counts under the weekday
\* its date falls on in the server's zone, and not at all with no valid date.
RECURSIVE DayData(_, _, _)
DayData(bookings, i, dayData) ==
    IF i > Len(bookings) THEN dayData
    ELSE LET date    == Get(bookings[i], "date")
             seconds == DateSeconds(date)
         IN  The({ DayData(bookings, i + 1, next) : next \in
                 { IF Truthy(date) /\ seconds # Undefined
                   THEN [dayData EXCEPT
                            ![DayNames[LocalDate(seconds[1]).weekday + 1]] = @ + 1]
                   ELSE dayData } })

\* The position of the customer with this email among customers, 0 if none.
CustomerIndex(customers, email) ==
    LET Same(k) == Interpolate(customers[k].email) = Interpolate(email)
    IN  IF \E k \in 1..Len(customers) : Same(k)
        THEN CHOOSE k \in 1..Len(customers) : Same(k)
        ELSE 0

\* customers (in order of insertion) after the sessions from the i-th on.
RECURSIVE CustomerRollup(_, _, _)
CustomerRollup(paid, i, customers) ==
    IF i > Len(paid) THEN customers
    ELSE LET s       == paid[i]
             k       == CustomerIndex(customers, s.customer_email)
             product == Get(s.metadata, "product")
             c       == IF k # 0 THEN customers[k]
                        ELSE [name         |-> Get(s.metadata, "customerName"),
                              email        |-> s.customer_email,
                              company      |-> Get(s.metadata, "company"),
                              bookings     |-> 0,
                              totalSpent   |-> 0,
                              firstBooking |-> s.created,
                              lastBooking  |-> s.created,
                              products     |-> <<>>]
             after   == [c EXCEPT
                            !.bookings     = @ + SlotCount(s),
                            !.totalSpent   = IF Refunded(s) THEN @
                                             ELSE @ + Dollars(s),
                            !.firstBooking = IF s.created < @ THEN s.created
                                             ELSE @,
                            !.lastBooking  = IF s.created > @ THEN s.created
                                             ELSE @,
                            !.products     =
                                IF Truthy(product) /\
                                   \A j \in 1..Len(@) : @[j] # product[1]
                                THEN Append(@, product[1]) ELSE @,
                            !.name         = Get(s.metadata, "customerName"),
                            !.company      = Get(s.metadata, "company")]
         IN  The({ CustomerRollup(paid, i + 1, next) : next \in
                 { IF k # 0 THEN [customers EXCEPT ![k] = after]
                   ELSE Append(customers, after) } })

\* One element of customerList before the sort.
CustomerEntry(c) ==
    [name         |-> c.name,
     email        |-> c.email,
     company      |-> c.company,
     bookings     |-> c.bookings,
     totalSpent   |-> c.totalSpent,
     firstBooking |-> ToISOString(c.firstBooking),
     lastBooking  |-> ToISOString(c.lastBooking),
     products     |-> c.products,
     isRepeat     |-> c.bookings > 1]

\* sorted with c put after the entries of at least as many bookings.
InsertByBookings(sorted, c) ==
    LET k == Cardinality({j \in 1..Len(sorted) :
                             sorted[j].bookings >= c.bookings})
    IN  SubSeq(sorted, 1, k) \o <<c>> \o SubSeq(sorted, k + 1, Len(sorted))

\* .sort((a, b) => b.bookings - a.bookings), which is stable.
RECURSIVE SortByBookings(_, _, _)
SortByBookings(list, i, sorted) ==
    IF i > Len(list) THEN sorted
    ELSE The({ SortByBookings(list, i + 1, next) : next \in
             { InsertByBookings(sorted, list[i]) } })

\* The figures computed from the paid sessions, those of them not refunded,
\* and the slots of the latter.
Figures(paid, notRefunded, bookings) ==
    LET customerList ==
            The({ SortByBookings([k \in 1..Len(customers) |->
                                     CustomerEntry(customers[k])], 1, <<>>) :
                  customers \in {CustomerRollup(paid, 1, <<>>)} })
    IN  [monthly         |-> MonthlyData(notRefunded, 1, EmptyMonths),
         locations       |-> LocationData(bookings, 1, EmptyObject),
         timeSlots       |-> TimeData(bookings, 1,
                                 [t \in {"11:00 AM", "3:00 PM"} |-> 0],
                                 Inherited(env.polluted \/ Pollutes(bookings))),
         popularDays     |-> DayData(bookings, 1,
                                 [d \in {"Mon", "Tue", "Wed", "Thu", "Fri",
                                         "Sat", "Sun"} |-> 0]),
         customers       |-> customerList,
         totalCustomers  |-> Len(customerList),
         repeatCustomers |-> Len(SelectSeq(customerList,
                                           LAMBDA c : c.isRepeat))]

\* The body of the analytics response for the sessions fetched.
Analytics(allSessions) ==
    The({ The({ The({ Figures(paid, notRefunded, bookings) :
                      bookings \in {BookingsOf(notRefunded, 1)} }) :
                notRefunded \in {NotRefunded(paid)} }) :
          paid \in {SelectSeq(allSessions, PaidWithName)} })

\* Whether computing the figures for the sessions fetched leaves
\* Object.prototype polluted.
AnalyticsPollutes(allSessions) ==
    env.polluted
    \/ Pollutes(BookingsOf(NotRefunded(SelectSeq(allSessions, PaidWithName)), 1))

\* The guard, then the handler up to its await of the first list call.
AdminAnalytics(r, header, query) ==
    LET request == AdminRequest("analytics", header, query)
    IN  /\ reqs[r].pc = "idle"
        /\ IF AdminAuth(request) # Undefined
           THEN /\ reqs' = [reqs EXCEPT ![r] = Denied(request)]
                /\ UNCHANGED stripe
           ELSE /\ reqs' = [reqs EXCEPT ![r] =
                       [pc |-> "analytics.list", request |-> request,
                        allSessions |-> <<>>, startingAfter |-> Undefined]]
                /\ stripe' = [stripe EXCEPT !.calls =
                       Append(@, Call("sessions.list", r, Undefined))]
        /\ UNCHANGED <<env, resend>>

\* A page arrives: the loop asks for the next one, or ends and the handler
\* computes the figures and answers.
AnalyticsListReturns(r) ==
    /\ reqs[r].pc = "analytics.list"
    /\ LET batch         == SessionsList(reqs[r].startingAfter, 0)
           allSessions   == reqs[r].allSessions \o batch.data
           startingAfter == IF Len(batch.data) > 0
                            THEN Some(batch.data[Len(batch.data)].id)
                            ELSE reqs[r].startingAfter
       IN  IF batch.has_more /\ Len(allSessions) < MaxFetched
           THEN /\ reqs' = [reqs EXCEPT ![r] =
                       [@ EXCEPT !.allSessions = allSessions,
                                 !.startingAfter = startingAfter]]
                /\ stripe' = [stripe EXCEPT !.calls =
                       Append(@, Call("sessions.list", r, startingAfter))]
                /\ UNCHANGED env
           ELSE /\ \E fetched \in {allSessions} :
                       /\ reqs' = [reqs EXCEPT ![r] =
                              RespondListed(reqs[r].request, fetched, 200,
                                            Analytics(fetched))]
                       /\ env' = [env EXCEPT !.polluted =
                                     AnalyticsPollutes(fetched)]
                /\ UNCHANGED stripe
    /\ UNCHANGED resend

\* The sessions a list call with this cursor can still return, most recent
\* first: all of them for no cursor or a cursor the processor does not know.
AfterCursor(startingAfter) ==
    LET all == NewestFirst(stripe.sessions)
        at  == IF startingAfter = Undefined THEN 0
               ELSE IF \E i \in 1..Len(all) : all[i].id = startingAfter[1]
                    THEN CHOOSE i \in 1..Len(all) : all[i].id = startingAfter[1]
                    ELSE 0
    IN  SubSeq(all, at + 1, Len(all))

\* A page arrives from a processor that is only known to answer a list call
\* with at most `limit` sessions and a has_more flag: this many of the
\* sessions after the cursor, with this flag.  The loop runs as above.
AnalyticsPageArrives(r, size, hasMore) ==
    /\ reqs[r].pc = "analytics.list"
    /\ size <= PageLimit
    /\ size <= Len(AfterCursor(reqs[r].startingAfter))
    /\ LET batch         == [data |-> SubSeq(AfterCursor(reqs[r].startingAfter),
                                             1, size),
                             has_more |-> hasMore]
           allSessions   == reqs[r].allSessions \o batch.data
           startingAfter == IF Len(batch.data) > 0
                            THEN Some(batch.data[Len(batch.data)].id)
                            ELSE reqs[r].startingAfter
       IN  IF batch.has_more /\ Len(allSessions) < MaxFetched
           THEN /\ reqs' = [reqs EXCEPT ![r] =
                       [@ EXCEPT !.allSessions = allSessions,
                                 !.startingAfter = startingAfter]]
                /\ stripe' = [stripe EXCEPT !.calls =
                       Append(@, Call("sessions.list", r, startingAfter))]
                /\ UNCHANGED env
           ELSE /\ \E fetched \in {allSessions} :
                       /\ reqs' = [reqs EXCEPT ![r] =
                              RespondListed(reqs[r].request, fetched, 200,
                                            Analytics(fetched))]
                       /\ env' = [env EXCEPT !.polluted =
                                     AnalyticsPollutes(fetched)]
                /\ UNCHANGED stripe
    /\ UNCHANGED resend

AnalyticsListThrows(r, error) ==
    /\ reqs[r].pc = "analytics.list"
    /\ reqs' = [reqs EXCEPT ![r] =
           Respond(reqs[r].request, 500, [error |-> error.message])]
    /\ UNCHANGED <<env, stripe, resend>>

(***************************************************************************)
(* POST /api/admin/bookings/:sessionId/refund                               *)
(***************************************************************************)

\* A refund request for a session, with the password in the header, in the
\* query, or absent.
RefundRequest(header, query, sessionId) ==
    [route   |-> "refund",
     headers |-> ObjectOf(("x-admin-password" :> header)),
     query   |-> ObjectOf([admin_password |-> query]),
     params  |-> [sessionId |-> sessionId]]

\* The refund check with the test of the refund flag left out.
AlreadyRefundedUnchecked(session) == FALSE

\* charges && charges[0]?.refunded, for charges =
\* session.payment_intent?.charges?.data
AlreadyRefunded(session) == Refunded(session)

\* The guard, then the handler up to its await of the retrieve call.
AdminRefund(r, header, query, sessionId) ==
    LET request == RefundRequest(header, query, sessionId)
    IN  /\ reqs[r].pc = "idle"
        /\ IF AdminAuth(request) # Undefined
           THEN /\ reqs' = [reqs EXCEPT ![r] = Denied(request)]
                /\ UNCHANGED stripe
           ELSE /\ reqs' = [reqs EXCEPT ![r] =
                       [pc |-> "refund.retrieve", request |-> request]]
                /\ stripe' = [stripe EXCEPT !.calls =
                       Append(@, Call("sessions.retrieve", r,
                                      Some(request.params.sessionId)))]
        /\ UNCHANGED <<env, resend>>

\* The processor returns the session with its payment intent expanded.  No
\* intent: 400.  First charge flagged refunded: 400.  Otherwise the handler
\* calls refunds.create and awaits it.
RefundRetrieveReturns(r) ==
    /\ reqs[r].pc = "refund.retrieve"
    /\ SessionIndex(reqs[r].request.params.sessionId) # 0
    /\ LET session ==
               stripe.sessions[SessionIndex(reqs[r].request.params.sessionId)]
       IN  IF session.payment_intent = Undefined
           THEN /\ reqs' = [reqs EXCEPT ![r] =
                       RespondAfter(reqs[r].request, session, 400,
                           [error |-> "No payment intent found for this session"])]
                /\ UNCHANGED stripe
           ELSE IF AlreadyRefunded(session)
           THEN /\ reqs' = [reqs EXCEPT ![r] =
                       RespondAfter(reqs[r].request, session, 400,
                           [error |-> "This booking has already been refunded"])]
                /\ UNCHANGED stripe
           ELSE /\ reqs' = [reqs EXCEPT ![r] =
                       [pc |-> "refund.create", request |-> reqs[r].request,
                        session |-> session, call |-> Len(stripe.calls) + 1]]
                /\ stripe' = [stripe EXCEPT !.calls =
                       Append(@, Call("refunds.create", r,
                                      Some(session.payment_intent[1].id)))]
    /\ UNCHANGED <<env, resend>>

\* The retrieve call fails (no such session, or the processor is unreachable).
RefundRetrieveThrows(r, error) ==
    /\ reqs[r].pc = "refund.retrieve"
    /\ reqs' = [reqs EXCEPT ![r] =
           Respond(reqs[r].request, 500, [error |-> error.message])]
    /\ UNCHANGED <<env, stripe, resend>>

\* The refunds the processor has made of a payment intent.
RefundsOf(paymentIntentId) ==
    SelectSeq(stripe.refunds, LAMBDA f : f.payment_intent = paymentIntentId)

\* The index of the processor's session paid by this intent, 0 if none.
IntentIndex(paymentIntentId) ==
    LET Paid(i) == /\ stripe.sessions[i].payment_intent # Undefined
                   /\ stripe.sessions[i].payment_intent[1].id = paymentIntentId
    IN  IF \E i \in 1..Len(stripe.sessions) : Paid(i)
        THEN CHOOSE i \in 1..Len(stripe.sessions) : Paid(i)
        ELSE 0

\* The cancellation message handed to resend.emails.send; its recipients are
\* the array [session.customer_email], whatever that value is.
CancellationEmail(session, refund) ==
    [to           |-> <<session.customer_email>>,
     subject      |-> "Demo Booking Cancelled - Refund Issued",
     company      |-> Interpolate(Get(session.metadata, "company")),
     refundAmount |-> ToFixed2(session.amount_total),
     refundId     |-> refund.id]

\* The processor makes the full refund, which it does once per payment: the
\* charge is from then on refunded, and flagged so where charges are listed.
\* The handler then hands the cancellation email to the mail provider.
RefundCreateReturns(r) ==
    /\ reqs[r].pc = "refund.create"
    /\ LET id     == reqs[r].session.payment_intent[1].id
           i      == IntentIndex(id)
           refund == [id             |-> "re_" \o NatToString(Len(stripe.refunds) + 1),
                      payment_intent |-> id,
                      amount         |-> stripe.sessions[i].amount_total,
                      call           |-> reqs[r].call]
           charge == [refunded |-> TRUE, amount_refunded |-> refund.amount]
       IN  /\ i # 0
           /\ Len(RefundsOf(id)) = 0
           /\ stripe' = [stripe EXCEPT
                  !.refunds = Append(@, refund),
                  !.sessions[i].payment_intent =
                      IF FirstCharge(stripe.sessions[i]) = Undefined THEN @
                      ELSE Some([id |-> id,
                                 charges |-> Some([data |-> <<charge>>])])]
           /\ reqs' = [reqs EXCEPT ![r] =
                  [pc |-> "refund.send", request |-> reqs[r].request,
                   session |-> reqs[r].session, refund |-> refund,
                   send |-> Len(resend.sends) + 1]]
           /\ resend' = [resend EXCEPT !.sends =
                  Append(@, [req |-> r, outcome |-> "pending",
                             message |-> CancellationEmail(reqs[r].session,
                                                           refund)])]
    /\ UNCHANGED env

\* refunds.create fails: the charge is already refunded, the balance is short,
\* or the processor is unreachable.
RefundCreateThrows(r, error) ==
    /\ reqs[r].pc = "refund.create"
    /\ reqs' = [reqs EXCEPT ![r] =
           RespondAfter(reqs[r].request, reqs[r].session, 500,
                        [error |-> error.message])]
    /\ UNCHANGED <<env, stripe, resend>>

\* What the refund handler answers after the try around the email.
RefundSuccess(req) ==
    RespondAfter(req.request, req.session, 200,
                 [success  |-> TRUE,
                  refundId |-> req.refund.id,
                  amount   |-> ToFixed2(req.refund.amount)])

RefundSendReturns(r) ==
    /\ reqs[r].pc = "refund.send"
    /\ resend' = [resend EXCEPT !.sends[reqs[r].send].outcome = "sent"]
    /\ reqs' = [reqs EXCEPT ![r] = RefundSuccess(reqs[r])]
    /\ UNCHANGED <<env, stripe>>

\* Mutant of RefundSendThrows: the send's error reaches the handler's catch.
RefundSendErrorSurfaces(r) ==
    /\ reqs[r].pc = "refund.send"
    /\ resend' = [resend EXCEPT !.sends[reqs[r].send].outcome = "failed"]
    /\ reqs' = [reqs EXCEPT ![r] =
           RespondAfter(reqs[r].request, reqs[r].session, 500,
                        [error |-> "email failed"])]
    /\ UNCHANGED <<env, stripe>>

\* The send fails; the catch around it logs the error.
RefundSendThrows(r) ==
    /\ reqs[r].pc = "refund.send"
    /\ resend' = [resend EXCEPT !.sends[reqs[r].send].outcome = "failed"]
    /\ reqs' = [reqs EXCEPT ![r] = RefundSuccess(reqs[r])]
    /\ UNCHANGED <<env, stripe>>

\* The response has been delivered; the connection takes the next request.
Close(r) ==
    /\ reqs[r].pc = "done"
    /\ reqs' = [reqs EXCEPT ![r] = Idle]
    /\ UNCHANGED <<env, stripe, resend>>

(***************************************************************************)
(* POST /api/admin/auth                                                    *)
(***************************************************************************)

\* A login request with this JSON body; the action below takes the password
\* the body carries, if it carries one.
LoginRequest(body) == [route |-> "auth", body |-> body]

\* const { password } = req.body; password === process.env.ADMIN_PASSWORD
AdminLogin(r, password) ==
    LET request == LoginRequest(ObjectOf([password |-> password]))
    IN  /\ reqs[r].pc = "idle"
        /\ reqs' = [reqs EXCEPT ![r] =
               IF Get(request.body, "password") = env.ADMIN_PASSWORD
               THEN RespondOk(request, [success |-> TRUE])
               ELSE Respond(request, 401, [error |-> "Invalid password"])]
        /\ UNCHANGED <<env, stripe, resend>>

(***************************************************************************)
(* Checkout, payment and listing: one checkout by a customer, one listing  *)
(* by the admin, in any interleaving                                       *)
(***************************************************************************)

AdminSecret == "hunter2"

\* The clock reads 2025-03-14T20:00:00.123Z (seconds and milliseconds are kept
\* apart); the server runs on Pacific standard time.
InitEnv(password) ==
    env = [ADMIN_PASSWORD |-> password,
           now |-> [seconds |-> 1741982400, millis |-> 123], tz |-> -480,
           polluted |-> FALSE]

InitCheckout ==
    /\ InitEnv(Some(AdminSecret))
    /\ \E listed \in BOOLEAN :
           stripe = [sessions |-> <<>>, calls |-> <<>>, refunds |-> <<>>,
                     listsCharges |-> listed]
    /\ resend = [sends |-> <<>>]
    /\ reqs = <<Idle, Idle>>

NextCheckout ==
    \/ \E customer \in Customers, cart \in Carts :
           CreateCheckoutSession(1, CheckoutBody(customer, cart))
    \/ \E customer \in Customers : CreateCheckoutSession(1, customer)
    \/ SessionsCreateReturns(1)
    \/ \E error \in StripeErrors : SessionsCreateThrows(1, error)
    \/ \E i \in 1..Len(stripe.sessions) : CustomerPays(i)
    \/ AdminBookings(2, Some(AdminSecret), Undefined)
    \/ AdminBookingsListReturns(2)
    \/ \E error \in StripeErrors : AdminBookingsListThrows(2, error)

SpecCheckout == InitCheckout /\ [][NextCheckout]_vars

(***************************************************************************)
(* Verification: one session at the processor, one verify request          *)
(***************************************************************************)

Ann == CHOOSE c \in Customers : c.customerName = "Ann"

Bob == CHOOSE c \in Customers : c.customerName = "Bob"

\* The metadata of a session apart from its bookings.
CustomerMetadata(customer) ==
    ObjectOf([customerName |-> Get(customer, "customerName"),
              company      |-> Get(customer, "company"),
              product      |-> Get(customer, "product"),
              phone        |-> Get(customer, "phone")])

\* Metadata the processor may hold: written by the checkout encoder for carts
\* of 0, 1, 2 and 6 slots (the last in two chunks), and records that are
\* missing, empty, cut short, not JSON, not a list, or that hold a slot with no
\* time.
MetadataSamples ==
    { EncodeMetadata(CheckoutBody(Ann, CartOf(n, 2, 1))) : n \in {0, 1, 2, 6} }
    \cup
    { CustomerMetadata(Ann),
      Put(CustomerMetadata(Ann), "bookings", ""),
      Put(CustomerMetadata(Ann), "bookings", "[{\"date\":\"2025-03-14\",\"ti"),
      Put(CustomerMetadata(Ann), "bookings", "not json"),
      Put(CustomerMetadata(Ann), "bookings", "{}"),
      Put(CustomerMetadata(Ann), "bookings", "null"),
      Put(CustomerMetadata(Ann), "bookings",
          "[{\"date\":\"2025-03-14\",\"location\":\"Mill Valley\"}]"),
      Put(CustomerMetadata(Ann), "bookings_chunks", "0"),
      Put(CustomerMetadata(Ann), "bookings_chunks", "many"),
      Put(Put(CustomerMetadata(Ann), "bookings_chunks", "2"), "bookings_0",
          "[{\"date\":\"2025-03-14\",\"time\":\"11:00 AM\"},"),
      Put(Put(Put(CustomerMetadata(Ann), "bookings_chunks", "0x2"),
              "bookings_0", "[{\"date\":\"2025-03-14\",\"time\":\"11:00 AM\"},"),
          "bookings_1", "{\"date\":\"2025-03-15\",\"time\":\"3:00 PM\"}]") }

\* A session the processor holds: the n-th, of this status, customer and
\* metadata, created at the given second, for a total in cents.
StoredSession(n, status, customer, metadata, created, total, listed) ==
    LET session ==
            [id             |-> SessionId(n),
             payment_status |-> status,
             customer_email |-> Get(customer, "customerEmail"),
             amount_total   |-> total,
             created        |-> created,
             metadata       |-> metadata,
             line_items     |-> <<>>,
             payment_intent |-> Undefined]
    IN  IF status = "paid"
        THEN [session EXCEPT !.payment_intent = Some(PaidIntent(session, listed))]
        ELSE session

\* The total the processor charged for the bookings a metadata decodes to.
TotalOf(metadata) ==
    LET bookings == ExtractBookings([metadata |-> metadata])
    IN  IF bookings.kind = "array" THEN Len(bookings.v) * UnitAmount ELSE 0

InitVerify ==
    /\ InitEnv(Some(AdminSecret))
    /\ \E status \in {"paid", "unpaid", "no_payment_required"},
          metadata \in MetadataSamples :
           stripe = [sessions |-> <<StoredSession(1, status, Ann, metadata,
                                        env.now.seconds - 3600,
                                        TotalOf(metadata), TRUE)>>,
                     calls |-> <<>>, refunds |-> <<>>,
                     listsCharges |-> TRUE]
    /\ resend = [sends |-> <<>>]
    /\ reqs = <<Idle>>

NextVerify ==
    \/ \E id \in {SessionId(1), SessionId(2)} : VerifyPayment(1, id)
    \/ VerifyRetrieveReturns(1)
    \/ \E error \in StripeErrors : VerifyRetrieveThrows(1, error)
    \/ VerifySendReturns(1)
    \/ VerifySendThrows(1)
    \/ CustomerPays(1)

SpecVerify == InitVerify /\ [][NextVerify]_vars

(***************************************************************************)
(* The admin endpoints under every password: one request at a server whose *)
(* secret is unset, empty or set                                           *)
(***************************************************************************)

\* What a client may send as a password: nothing, the empty string, a wrong
\* guess, the secret.
Passwords == {Undefined, Some(""), Some("guess"), Some(AdminSecret)}

InitAdmin ==
    /\ \E password \in {Undefined, Some(""), Some(AdminSecret)} :
           InitEnv(password)
    /\ stripe = [sessions |->
                     <<StoredSession(1, "paid", Ann,
                           EncodeMetadata(CheckoutBody(Ann, CartOf(2, 0, 1))),
                           env.now.seconds - 3600, 2 * UnitAmount, TRUE)>>,
                 calls |-> <<>>, refunds |-> <<>>, listsCharges |-> TRUE]
    /\ resend = [sends |-> <<>>]
    /\ reqs = <<Idle>>

NextAdmin ==
    \/ \E header \in Passwords, query \in Passwords :
           AdminBookings(1, header, query)
    \/ AdminBookingsListReturns(1)
    \/ \E error \in StripeErrors : AdminBookingsListThrows(1, error)
    \/ \E header \in Passwords, query \in Passwords :
           AdminStats(1, header, query)
    \/ AdminStatsListReturns(1)
    \/ \E error \in StripeErrors : AdminStatsListThrows(1, error)
    \/ \E header \in Passwords, query \in Passwords :
           AdminAnalytics(1, header, query)
    \/ AnalyticsListReturns(1)
    \/ \E error \in StripeErrors : AnalyticsListThrows(1, error)
    \/ \E header \in Passwords, query \in Passwords :
           AdminRefund(1, header, query, SessionId(1))
    \/ RefundRetrieveReturns(1)
    \/ \E error \in StripeErrors : RefundRetrieveThrows(1, error)
    \/ RefundCreateReturns(1)
    \/ \E error \in StripeErrors : RefundCreateThrows(1, error)
    \/ RefundSendReturns(1)
    \/ RefundSendThrows(1)
    \/ \E password \in Passwords :
           AdminLogin(1, password)

SpecAdmin == InitAdmin /\ [][NextAdmin]_vars

(***************************************************************************)
(* Refunds: refund requests one after another on one connection            *)
(***************************************************************************)

\* The most processor calls after which a further refund request is taken.
MaxCalls == 4

InitRefund ==
    /\ InitEnv(Some(AdminSecret))
    /\ \E listed \in BOOLEAN, status \in {"paid", "unpaid"} :
           stripe = [sessions |->
                         <<StoredSession(1, "paid", Ann,
                               EncodeMetadata(CheckoutBody(Ann, CartOf(2, 0, 1))),
                               env.now.seconds - 7200, 2 * UnitAmount, listed),
                           StoredSession(2, status, Bob,
                               EncodeMetadata(CheckoutBody(Bob, CartOf(1, 1, 0))),
                               env.now.seconds - 3600, UnitAmount, listed)>>,
                     calls |-> <<>>, refunds |-> <<>>, listsCharges |-> listed]
    /\ resend = [sends |-> <<>>]
    /\ reqs = <<Idle>>

NextRefund ==
    \/ \E n \in 1..3 :
           /\ Len(stripe.calls) < MaxCalls
           /\ AdminRefund(1, Some(AdminSecret), Undefined, SessionId(n))
    \/ RefundRetrieveReturns(1)
    \/ \E error \in StripeErrors : RefundRetrieveThrows(1, error)
    \/ RefundCreateReturns(1)
    \/ \E error \in StripeErrors : RefundCreateThrows(1, error)
    \/ RefundSendReturns(1)
    \/ RefundSendThrows(1)
    \/ Close(1)

SpecRefund == InitRefund /\ [][NextRefund]_vars

(***************************************************************************)
(* Statistics: up to MaxSessions sessions at the processor, one stats or   *)
(* analytics request                                                       *)
(***************************************************************************)

\* The most sessions the processor holds in this specification.
MaxSessions == 3

\* A paid session of another integration on the same processor account: its
\* metadata carries no customerName.
Eve == [customerEmail |-> "eve@else.test"]

\* The kinds of session the processor may hold, oldest first: created seven
\* months ago, last month, on the last evening of last month (server time;
\* already this month in UTC), and an hour ago.  A charge is "ok", "refunded",
\* or "unlisted" (the intent comes without its charges).
SessionShapes ==
    << [status |-> "paid", customer |-> Bob, created |-> env.now.seconds - 210 * 86400,
        metadata |-> EncodeMetadata(CheckoutBody(Bob, CartOf(1, 0, 0))),
        total |-> UnitAmount, charge |-> "ok"],
       [status |-> "paid", customer |-> Ann, created |-> env.now.seconds - 32 * 86400,
        metadata |-> EncodeMetadata(CheckoutBody(Ann, CartOf(1, 3, 0))),
        total |-> UnitAmount, charge |-> "refunded"],
       [status |-> "paid", customer |-> Bob, created |-> env.now.seconds - 32 * 86400,
        metadata |-> Put(CustomerMetadata(Bob), "bookings", "[{\"date\":\"soon\"}]"),
        total |-> UnitAmount, charge |-> "ok"],
       [status |-> "paid", customer |-> Bob, created |-> env.now.seconds - 1180800,
        metadata |-> EncodeMetadata(CheckoutBody(Bob, CartOf(2, 2, 1))),
        total |-> 2 * UnitAmount, charge |-> "refunded"],
       [status |-> "paid", customer |-> Ann, created |-> env.now.seconds - 3600,
        metadata |-> EncodeMetadata(CheckoutBody(Ann, CartOf(2, 0, 1))),
        total |-> 2 * UnitAmount, charge |-> "ok"],
       [status |-> "unpaid", customer |-> Ann, created |-> env.now.seconds - 3600,
        metadata |-> EncodeMetadata(CheckoutBody(Ann, CartOf(2, 0, 1))),
        total |-> 2 * UnitAmount, charge |-> "ok"],
       [status |-> "paid", customer |-> Eve, created |-> env.now.seconds - 3600,
        metadata |-> EncodeMetadata(CheckoutBody(Eve, CartOf(1, 1, 0))),
        total |-> UnitAmount, charge |-> "ok"],
       [status |-> "paid", customer |-> Ann, created |-> env.now.seconds - 3600,
        metadata |-> CustomerMetadata(Ann),
        total |-> UnitAmount, charge |-> "unlisted"],
       [status |-> "paid", customer |-> Bob, created |-> env.now.seconds - 7200,
        metadata |-> EncodeMetadata(CheckoutBody(Bob,
                         <<[date |-> "2025-03-14", time |-> "toString",
                            location |-> "constructor",
                            displayDate |-> "Friday, March 14"]>>)),
        total |-> UnitAmount, charge |-> "ok"] >>

\* The n-th session at the processor, of the given shape.
ShapedSession(n, shape) ==
    LET session == StoredSession(n, shape.status, shape.customer,
                                 shape.metadata, shape.created, shape.total,
                                 shape.charge # "unlisted")
    IN  IF shape.status = "paid" /\ shape.charge = "refunded"
        THEN [session EXCEPT !.payment_intent =
                 Some([id |-> @[1].id,
                       charges |-> Some([data |->
                           <<[refunded |-> TRUE,
                              amount_refunded |-> shape.total]>>])])]
        ELSE session

InitStats ==
    /\ InitEnv(Some(AdminSecret))
    /\ \E n \in 0..MaxSessions :
       \E pick \in [1..n -> 1..Len(SessionShapes)] :
           /\ \A i \in 1..(n - 1) : pick[i] <= pick[i + 1]
           /\ stripe = [sessions |->
                            [i \in 1..n |->
                                ShapedSession(i, SessionShapes[pick[i]])],
                        calls |-> <<>>, refunds |-> <<>>,
                        listsCharges |-> TRUE]
    /\ resend = [sends |-> <<>>]
    /\ reqs = <<Idle>>

NextStats ==
    \/ AdminStats(1, Some(AdminSecret), Undefined)
    \/ AdminStatsListReturns(1)
    \/ \E error \in StripeErrors : AdminStatsListThrows(1, error)
    \/ AdminAnalytics(1, Undefined, Some(AdminSecret))
    \/ AnalyticsListReturns(1)
    \/ \E error \in StripeErrors : AnalyticsListThrows(1, error)

SpecStats == InitStats /\ [][NextStats]_vars

(***************************************************************************)
(* Decoding for the admin listing: one session whose metadata is any of    *)
(* the samples, listing requests one after another on one connection       *)
(***************************************************************************)

InitDecode ==
    /\ InitEnv(Some(AdminSecret))
    /\ \E status \in {"paid", "unpaid"}, metadata \in MetadataSamples :
           stripe = [sessions |-> <<StoredSession(1, status, Ann, metadata,
                                        env.now.seconds - 3600,
                                        TotalOf(metadata), TRUE)>>,
                     calls |-> <<>>, refunds |-> <<>>,
                     listsCharges |-> TRUE]
    /\ resend = [sends |-> <<>>]
    /\ reqs = <<Idle>>

NextDecode ==
    \/ \E header \in {Undefined, Some(AdminSecret)} :
           /\ Len(stripe.calls) < MaxCalls
           /\ AdminBookings(1, header, Undefined)
    \/ AdminBookingsListReturns(1)
    \/ \E error \in StripeErrors : AdminBookingsListThrows(1, error)
    \/ CustomerPays(1)
    \/ Close(1)

SpecDecode == InitDecode /\ [][NextDecode]_vars

(***************************************************************************)
(* Repeated checkouts: one customer sending carts one after another on one *)
(* connection, the same cart again included                                *)
(***************************************************************************)

\* The bodies of the repeated checkouts: carts of 0 to 2 slots, and a body
\* with no cart.
RetryBodies == {CheckoutBody(Ann, CartOf(n, 0, 1)) : n \in 0..2} \cup {Ann}

InitRetry ==
    /\ InitEnv(Some(AdminSecret))
    /\ stripe = [sessions |-> <<>>, calls |-> <<>>, refunds |-> <<>>,
                 listsCharges |-> TRUE]
    /\ resend = [sends |-> <<>>]
    /\ reqs = <<Idle>>

NextRetry ==
    \/ \E body \in RetryBodies :
           /\ Len(stripe.calls) < MaxCalls
           /\ CreateCheckoutSession(1, body)
    \/ SessionsCreateReturns(1)
    \/ \E error \in StripeErrors : SessionsCreateThrows(1, error)
    \/ Close(1)

SpecRetry == InitRetry /\ [][NextRetry]_vars

(***************************************************************************)
(* The calendar of a confirmation: one paid session of one or two slots    *)
(* whose time labels are any hours of the day, one verify request          *)
(***************************************************************************)

\* The time label of hour h of the half of the day: "11:00 AM", "3:00 PM".
TimeLabel(h, half) == NatToString(h) \o ":00 " \o half

TimeLabels == {TimeLabel(h, half) : h \in 1..12, half \in {"AM", "PM"}}

\* The carts of one slot, and of two slots on different days.
LabelledCarts ==
    { <<[SlotTemplates[1] EXCEPT !.time = first]>> : first \in TimeLabels }
    \cup
    { <<[SlotTemplates[1] EXCEPT !.time = first],
        [SlotTemplates[4] EXCEPT !.time = second]>> :
          first \in TimeLabels, second \in TimeLabels }

InitCalendar ==
    /\ InitEnv(Some(AdminSecret))
    /\ \E cart \in LabelledCarts :
           stripe = [sessions |->
                         <<StoredSession(1, "paid", Ann,
                               EncodeMetadata(CheckoutBody(Ann, cart)),
                               env.now.seconds - 3600,
                               Len(cart) * UnitAmount, TRUE)>>,
                     calls |-> <<>>, refunds |-> <<>>, listsCharges |-> TRUE]
    /\ resend = [sends |-> <<>>]
    /\ reqs = <<Idle>>

NextCalendar ==
    \/ VerifyPayment(1, SessionId(1))
    \/ VerifyRetrieveReturns(1)
    \/ \E error \in StripeErrors : VerifyRetrieveThrows(1, error)
    \/ VerifySendReturns(1)
    \/ VerifySendThrows(1)

SpecCalendar == InitCalendar /\ [][NextCalendar]_vars

(***************************************************************************)
(* Pagination: one analytics request at a processor that may answer a list *)
(* call with any page of its sessions and any has_more flag                *)
(***************************************************************************)

\* The most list calls after which the processor stops reporting more.
MaxPages == 5

InitPages ==
    /\ InitEnv(Some(AdminSecret))
    /\ \E status \in {"paid", "unpaid"} :
           stripe = [sessions |->
                         <<StoredSession(1, "paid", Ann,
                               EncodeMetadata(CheckoutBody(Ann, CartOf(2, 0, 1))),
                               env.now.seconds - 7200, 2 * UnitAmount, TRUE),
                           StoredSession(2, status, Bob,
                               EncodeMetadata(CheckoutBody(Bob, CartOf(1, 1, 0))),
                               env.now.seconds - 3600, UnitAmount, TRUE),
                           StoredSession(3, "paid", Ann,
                               EncodeMetadata(CheckoutBody(Ann, CartOf(1, 3, 0))),
                               env.now.seconds - 1800, UnitAmount, TRUE)>>,
                     calls |-> <<>>, refunds |-> <<>>, listsCharges |-> TRUE]
    /\ resend = [sends |-> <<>>]
    /\ reqs = <<Idle>>

NextPages ==
    \/ AdminAnalytics(1, Some(AdminSecret), Undefined)
    \/ \E size \in 0..3, hasMore \in BOOLEAN :
           /\ hasMore => Len(stripe.calls) < MaxPages
           /\ AnalyticsPageArrives(1, size, hasMore)
    \/ \E error \in StripeErrors : AnalyticsListThrows(1, error)

SpecPages == InitPages /\ [][NextPages]_vars

(***************************************************************************)
(* The customer rollup: one customer's sessions under changing names, one  *)
(* analytics request                                                       *)
(***************************************************************************)

\* What one customer, booking under one email, entered over time.
Identities ==
    << Ann,
       [customerEmail |-> "ann@acme.test", customerName |-> "Ann Lee",
        company |-> "Acme Foods", product |-> "Jam"],
       [customerEmail |-> "ann@acme.test", customerName |-> "A. Lee",
        product |-> "Marmalade"] >>

\* One to three paid sessions of the customer, a day apart, the oldest first,
\* each under any of the identities; the last may be refunded.
InitRollup ==
    /\ InitEnv(Some(AdminSecret))
    /\ \E n \in 1..3, refunded \in BOOLEAN :
       \E pick \in [1..n -> 1..Len(Identities)] :
           stripe = [sessions |->
                        [i \in 1..n |->
                            ShapedSession(i,
                                [status   |-> "paid",
                                 customer |-> Identities[pick[i]],
                                 created  |-> env.now.seconds - (4 - i) * 86400,
                                 metadata |-> EncodeMetadata(
                                     CheckoutBody(Identities[pick[i]],
                                                  CartOf(1, i, 0))),
                                 total    |-> UnitAmount,
                                 charge   |-> IF refunded /\ i = n
                                              THEN "refunded" ELSE "ok"])],
                     calls |-> <<>>, refunds |-> <<>>, listsCharges |-> TRUE]
    /\ resend = [sends |-> <<>>]
    /\ reqs = <<Idle>>

NextRollup ==
    \/ AdminAnalytics(1, Some(AdminSecret), Undefined)
    \/ AnalyticsListReturns(1)
    \/ \E error \in StripeErrors : AnalyticsListThrows(1, error)

SpecRollup == InitRollup /\ [][NextRollup]_vars

(***************************************************************************)
(* The monthly window: the clock at several dates, up to two sessions at   *)
(* the processor, one analytics request                                    *)
(***************************************************************************)

\* The moments the request is served at: 14 March 2025 and 15 January 2025 at
\* noon, the last second of 2025 and the first of 2026, and the first second
\* of June 2025, all in server time.
Clocks == {1741982400, 1736971200, 1767254399, 1767254400, 1748764800}

InitMonthly ==
    /\ \E seconds \in Clocks :
           env = [ADMIN_PASSWORD |-> Some(AdminSecret),
                  now |-> [seconds |-> seconds, millis |-> 123], tz |-> -480,
                  polluted |-> FALSE]
    /\ \E n \in 0..(MaxSessions - 1) :
       \E pick \in [1..n -> 1..Len(SessionShapes)] :
           /\ \A i \in 1..(n - 1) : pick[i] <= pick[i + 1]
           /\ stripe = [sessions |->
                            [i \in 1..n |->
                                ShapedSession(i, SessionShapes[pick[i]])],
                        calls |-> <<>>, refunds |-> <<>>,
                        listsCharges |-> TRUE]
    /\ resend = [sends |-> <<>>]
    /\ reqs = <<Idle>>

NextMonthly ==
    \/ AdminAnalytics(1, Some(AdminSecret), Undefined)
    \/ AnalyticsListReturns(1)
    \/ \E error \in StripeErrors : AnalyticsListThrows(1, error)

SpecMonthly == InitMonthly /\ [][NextMonthly]_vars

(***************************************************************************)
(* Concurrent refunds: two authorised refund requests for one paid session *)
(* on two connections, their awaits interleaved in any order               *)
(***************************************************************************)

InitRace ==
    /\ InitEnv(Some(AdminSecret))
    /\ \E listed \in BOOLEAN :
           stripe = [sessions |->
                         <<StoredSession(1, "paid", Ann,
                               EncodeMetadata(CheckoutBody(Ann, CartOf(2, 0, 1))),
                               env.now.seconds - 7200, 2 * UnitAmount, listed)>>,
                     calls |-> <<>>, refunds |-> <<>>, listsCharges |-> listed]
    /\ resend = [sends |-> <<>>]
    /\ reqs = <<Idle, Idle>>

NextRace ==
    \E r \in 1..2 :
        \/ AdminRefund(r, Some(AdminSecret), Undefined, SessionId(1))
        \/ RefundRetrieveReturns(r)
        \/ \E error \in StripeErrors : RefundRetrieveThrows(r, error)
        \/ RefundCreateReturns(r)
        \/ \E error \in StripeErrors : RefundCreateThrows(r, error)
        \/ RefundSendReturns(r)
        \/ RefundSendThrows(r)

SpecRace == InitRace /\ [][NextRace]_vars

(***************************************************************************)
(* Claims about the codec and the checkout (under SpecCheckout)            *)
(***************************************************************************)

\* A cart's slot reduced to date, time, location and displayDate.
ReducedSlot(b) ==
    [date        |-> IF "date" \in DOMAIN b THEN b.date ELSE b.dateStr,
     time        |-> b.time,
     location    |-> b.location,
     displayDate |-> b.displayDate]

ReducedCart(cart) == [i \in 1..Len(cart) |-> ReducedSlot(cart[i])]

\* The checkout request once its cart has been encoded.
CheckoutSent == reqs[1].pc = "sessions.create"

\* The listing's rows, once the admin's request has been answered with them.
ListedRows ==
    IF reqs[2].pc = "done" /\ reqs[2].status = 200 THEN reqs[2].body.bookings
    ELSE <<>>

\* The metadata keys that hold the bookings.
BookingKeys(metadata) ==
    DOMAIN metadata \ {"customerName", "company", "product", "phone"}

\* C1: decoding the metadata the checkout encoder produced gives back the
\* cart's slots (reduced to date, time, location, displayDate), in order: for
\* the metadata sent to the processor, for the session it stores, and in the
\* rows the admin listing decodes with extractBookings.
C1_RoundTrip ==
    /\ CheckoutSent =>
           ExtractBookings([metadata |-> reqs[1].params.metadata])
               = [kind |-> "array", v |-> ReducedCart(reqs[1].request.cart)]
    /\ \A i \in 1..Len(stripe.sessions) :
           ExtractBookings(stripe.sessions[i])
               = [kind |-> "array", v |-> ReducedCart(reqs[1].request.cart)]
    /\ \A k \in 1..Len(ListedRows) :
           ListedRows[k].bookings
               = [kind |-> "array", v |-> ReducedCart(reqs[1].request.cart)]

\* C1 witness: the listing has decoded a cart of ten slots whose blob was
\* split over three chunks.
C1_Witness ==
    /\ Len(ListedRows) = 1
    /\ Len(ListedRows[1].bookings.v) = 10
    /\ "bookings_2" \in DOMAIN stripe.sessions[1].metadata
    /\ ReducedCart(reqs[1].request.cart) = ListedRows[1].bookings.v

\* The least n with n * 500 >= len: ceil(len / 500).
CeilOf500(len) == CHOOSE n \in 0..len : n * 500 >= len /\ (n - 1) * 500 < len

RECURSIVE ConcatChunks(_, _, _)
ConcatChunks(metadata, i, n) ==
    IF i >= n THEN ""
    ELSE metadata["bookings_" \o NatToString(i)] \o ConcatChunks(metadata, i + 1, n)

\* The form the claim gives the metadata of a cart.
ChunkingForm(metadata, cart) ==
    LET blob == JSONStringify(ReducedCart(cart))
        n    == CeilOf500(Len(blob))
        keys == {"bookings_" \o NatToString(i) : i \in 0..(n - 1)}
    IN  IF Len(blob) <= 500
        THEN /\ BookingKeys(metadata) = {"bookings"}
             /\ metadata["bookings"] = blob
        ELSE /\ BookingKeys(metadata) = keys \cup {"bookings_chunks"}
             /\ metadata["bookings_chunks"] = NatToString(n)
             /\ \A k \in keys : Len(metadata[k]) <= 500
             /\ ConcatChunks(metadata, 0, n) = blob

\* C2: a blob of at most 500 units is stored whole under `bookings`, with no
\* chunk key; a longer one is stored under bookings_0 .. bookings_{n-1} with
\* n = ceil(L / 500) recorded under bookings_chunks, each chunk of at most 500
\* units and the chunks in index order making up the blob.
C2_ChunkingForm ==
    /\ CheckoutSent =>
           ChunkingForm(reqs[1].params.metadata, reqs[1].request.cart)
    /\ \A i \in 1..Len(stripe.sessions) :
           ChunkingForm(stripe.sessions[i].metadata, reqs[1].request.cart)

\* C2 witness: a blob of 501 units has been sent in two chunks.
C2_Witness ==
    /\ CheckoutSent
    /\ Len(JSONStringify(ReducedCart(reqs[1].request.cart))) = 501
    /\ reqs[1].params.metadata["bookings_chunks"] = "2"

\* C3: the processor is sent one line item per slot, in cart order, each of
\* 3000 cents and quantity 1 whatever the slot, and the session it opens
\* totals N * 3000.
C3_Pricing ==
    /\ CheckoutSent =>
           LET items == reqs[1].params.line_items
               cart  == reqs[1].request.cart
           IN  /\ Len(items) = Len(cart)
               /\ \A i \in 1..Len(cart) :
                      /\ items[i].price_data.unit_amount = 3000
                      /\ items[i].quantity = 1
                      /\ items[i].price_data.product_data.name
                             = "Demo at Woodlands Market - " \o cart[i].location
    /\ \A i \in 1..Len(stripe.sessions) :
           /\ Len(stripe.sessions[i].line_items) = Len(reqs[1].request.cart)
           /\ stripe.sessions[i].amount_total = Len(reqs[1].request.cart) * 3000

\* C3 witness: a session was opened for a cart that holds the same slot more
\* than once, at different locations too.
C3_Witness ==
    /\ Len(stripe.sessions) = 1
    /\ LET cart == reqs[1].request.cart
       IN  /\ Len(cart) = 6
           /\ cart[1] = cart[5]
           /\ cart[1].location # cart[2].location
           /\ stripe.sessions[1].amount_total = 18000

(***************************************************************************)
(* Claims about verification (under SpecVerify)                            *)
(***************************************************************************)

\* The verify requests that have retrieved their session.
Retrieved ==
    {r \in DOMAIN reqs : /\ reqs[r].pc \in {"verify.send", "done"}
                         /\ "session" \in DOMAIN reqs[r]}

\* The sends a request has handed to the email provider.
SendsOf(r) == {k \in 1..Len(resend.sends) : resend.sends[k].req = r}

\* C4: when the session verify retrieved is not paid, no send to the email
\* provider is attempted, no confirmation number is returned, and the answer
\* is 400 "Payment not completed".
C4_VerificationGating ==
    \A r \in Retrieved :
        reqs[r].session.payment_status # "paid" =>
            /\ reqs[r].pc = "done"
            /\ reqs[r].status = 400
            /\ reqs[r].body = [error |-> "Payment not completed"]
            /\ SendsOf(r) = {}

\* C4 witness: verify has answered for a session that was not paid when it was
\* retrieved, though its bookings decode and it has been paid since.
C4_Witness ==
    /\ 1 \in Retrieved
    /\ reqs[1].session.payment_status = "unpaid"
    /\ stripe.sessions[1].payment_status = "paid"
    /\ Len(ExtractBookings(reqs[1].session).v) = 2
    /\ reqs[1].status = 400

\* Whether a session's bookings decode: the text verify reassembles parses to
\* a list of slots.
BookingsDecode(session) ==
    LET parsed == JSONParse(VerifyBookingsStr(session.metadata))
    IN  /\ parsed.ok
        /\ parsed.kind = "array"

\* C10: for a paid session whose bookings decode, verify answers success with
\* the confirmation number, the bookings and the customer's email, whether
\* the send to the email provider succeeded or failed.  The handler does not
\* keep to this: for a decoded list with a slot that has no time, building
\* the calendar attachment throws before the send, outside the try that
\* guards it, and verify answers 500.
C10_BestEffortConfirmation ==
    \A r \in Retrieved :
        (/\ reqs[r].session.payment_status = "paid"
         /\ BookingsDecode(reqs[r].session)
         /\ reqs[r].pc = "done") =>
            /\ reqs[r].status = 200
            /\ reqs[r].body.success
            /\ reqs[r].body.confirmationNumber = "WM-82400123"
            /\ reqs[r].body.bookings
                   = JSONParse(VerifyBookingsStr(reqs[r].session.metadata)).v
            /\ reqs[r].body.customerEmail = reqs[r].session.customer_email
            /\ \E k \in SendsOf(r) : resend.sends[k].outcome \in {"sent", "failed"}

(***************************************************************************)
(* Claims about the admin password (under SpecAdmin)                       *)
(***************************************************************************)

GuardedRoutes == {"bookings", "stats", "analytics", "refund"}

\* Whether the server has an admin secret: set, and not to the empty string.
Configured == env.ADMIN_PASSWORD # Undefined /\ env.ADMIN_PASSWORD # Some("")

\* The password a request supplies: the header's if it carries a non-empty
\* one, else the query parameter's.
Supplied(request) ==
    IF "x-admin-password" \in DOMAIN request.headers /\
       request.headers["x-admin-password"] # ""
    THEN Some(request.headers["x-admin-password"])
    ELSE IF "admin_password" \in DOMAIN request.query
         THEN Some(request.query["admin_password"])
         ELSE Undefined

\* Whether the handler of request r has run at all: it awaits a call, or has
\* made a processor call or handed over an email.
HandlerRan(r) ==
    \/ reqs[r].pc \notin {"idle", "done"}
    \/ \E k \in 1..Len(stripe.calls) : stripe.calls[k].req = r
    \/ \E k \in 1..Len(resend.sends) : resend.sends[k].req = r

\* C8 (admin guard): a request to a guarded endpoint (bookings, stats,
\* analytics, refund) is answered 500 when no admin secret is configured,
\* whatever password it supplies, and otherwise 401 when the password it
\* supplies (header or query parameter) differs from the secret; in both cases
\* the handler does not run: no processor call, no email.  The handler runs
\* only for a request whose password equals the configured secret.
C8_AdminGuard ==
    \A r \in DOMAIN reqs :
        (reqs[r].pc # "idle" /\ reqs[r].request.route \in GuardedRoutes) =>
            /\ ~Configured =>
                   /\ reqs[r].pc = "done" /\ reqs[r].status = 500
                   /\ ~HandlerRan(r)
            /\ (Configured /\ Supplied(reqs[r].request) # env.ADMIN_PASSWORD) =>
                   /\ reqs[r].pc = "done" /\ reqs[r].status = 401
                   /\ ~HandlerRan(r)
            /\ HandlerRan(r) =>
                   /\ Configured
                   /\ Supplied(reqs[r].request) = env.ADMIN_PASSWORD

\* A refund request carrying the usual secret reached a server with none
\* configured and was answered 500 with nothing called and nothing sent.
C8_Witness ==
    /\ env.ADMIN_PASSWORD = Undefined
    /\ reqs[1].pc = "done"
    /\ reqs[1].request.route = "refund"
    /\ Supplied(reqs[1].request) = Some(AdminSecret)
    /\ reqs[1].status = 500
    /\ stripe.calls = <<>> /\ resend.sends = <<>>

\* C9 (the auth endpoint is no bypass): POST /api/admin/auth answers
\* {success: true} only to a request whose password equals a configured admin
\* secret; with no secret configured it never answers success, whatever the
\* body, one without a password field included.
C9_AuthNotBypass ==
    \A r \in DOMAIN reqs :
        (/\ reqs[r].pc = "done"
         /\ reqs[r].request.route = "auth"
         /\ reqs[r].status = 200) =>
            /\ Configured
            /\ Get(reqs[r].request.body, "password") = env.ADMIN_PASSWORD

(***************************************************************************)
(* Claims about refunds (under SpecRefund, whose requests do not overlap)  *)
(***************************************************************************)

\* The positions in the call log of the refund-create calls for an intent.
CreateCalls(paymentIntentId) ==
    {k \in 1..Len(stripe.calls) :
        /\ stripe.calls[k].op = "refunds.create"
        /\ stripe.calls[k].arg = Some(paymentIntentId)}

\* A refund request to which the processor returned the session with its
\* charge reported refunded was answered 400 "already refunded", and the last
\* call made is its retrieve: it made no refund-create call.
RefusedWhenReported ==
    \A r \in DOMAIN reqs :
        (/\ reqs[r].pc = "done"
         /\ reqs[r].request.route = "refund"
         /\ "session" \in DOMAIN reqs[r]
         /\ Refunded(reqs[r].session)) =>
            /\ reqs[r].status = 400
            /\ reqs[r].body = [error |-> "This booking has already been refunded"]
            /\ stripe.calls[Len(stripe.calls)].op = "sessions.retrieve"

\* Once the processor has made a refund and reports the session's charge as
\* refunded, no refund-create call for that session follows the call that
\* made it.
NoCreateAfterReportedRefund ==
    \A n \in 1..Len(stripe.refunds) :
        LET refund == stripe.refunds[n]
        IN  Refunded(stripe.sessions[IntentIndex(refund.payment_intent)]) =>
                \A k \in CreateCalls(refund.payment_intent) : k <= refund.call

\* C5 as amended (refund idempotence): once a refund request for a session has
\* succeeded and the processor reports the session's charge as refunded, every
\* later refund request for that session to which the processor returns the
\* session is answered 400 "already refunded" and makes no refund-create call;
\* over non-overlapping requests no refund-create call for a session follows
\* one that succeeded.  (A call that failed may be followed by another.)
C5_RefundIdempotence == RefusedWhenReported /\ NoCreateAfterReportedRefund

\* A second request for a session refunded by the first has been answered 400
\* "already refunded", with one refund made and one refund-create call.
C5_Witness ==
    /\ Len(stripe.refunds) = 1
    /\ reqs[1].pc = "done"
    /\ reqs[1].request.route = "refund"
    /\ reqs[1].status = 400
    /\ reqs[1].body = [error |-> "This booking has already been refunded"]
    /\ "pi_" \o reqs[1].request.params.sessionId = stripe.refunds[1].payment_intent
    /\ Cardinality(CreateCalls(stripe.refunds[1].payment_intent)) = 1

\* C5 as stated: the above, and over any sequence of non-overlapping refund
\* requests at most one refund-create call is made per session (here: where
\* the processor reports refunds).
C5_AtMostOneCreateCall ==
    /\ C5_RefundIdempotence
    /\ stripe.listsCharges =>
           \A i \in 1..Len(stripe.sessions) :
               Cardinality(CreateCalls("pi_" \o stripe.sessions[i].id)) <= 1

(***************************************************************************)
(* Claims about the statistics (under SpecStats)                           *)
(***************************************************************************)

\* The sum of f[i] over the indices i in I.
RECURSIVE SumAt(_, _)
SumAt(f, I) ==
    IF I = {} THEN 0
    ELSE LET i == CHOOSE j \in I : TRUE
         IN  f[i] + SumAt(f, I \ {i})

\* Of a list of sessions: the positions of the paid ones carrying a customer
\* name, and of those among them whose charge is reported refunded.
PaidIn(sessions) ==
    {i \in 1..Len(sessions) :
        /\ sessions[i].payment_status = "paid"
        /\ "customerName" \in DOMAIN sessions[i].metadata
        /\ sessions[i].metadata.customerName # ""}

RefundedIn(sessions) ==
    {i \in PaidIn(sessions) :
        /\ sessions[i].payment_intent # Undefined
        /\ sessions[i].payment_intent[1].charges # Undefined
        /\ sessions[i].payment_intent[1].charges[1].data # <<>>
        /\ sessions[i].payment_intent[1].charges[1].data[1].refunded}

\* The decoded slot count of each session of a list.
SlotCounts(sessions) ==
    [i \in 1..Len(sessions) |-> Len(ExtractBookings(sessions[i]).v)]

\* The number of each session's slots that carry a valid date.
DatedCounts(sessions) ==
    [i \in 1..Len(sessions) |->
        Len(SelectSeq(ExtractBookings(sessions[i]).v,
                      LAMBDA b : /\ "date" \in DOMAIN b
                                 /\ IsISODate(b.date)))]

\* The number of each session's slots that the location figures can hold an
\* entry for, and that the time-slot figures can count: those whose location,
\* or time, is not the name of a member every object inherits.
LocatedCounts(sessions) ==
    [i \in 1..Len(sessions) |->
        Len(SelectSeq(ExtractBookings(sessions[i]).v,
                      LAMBDA b : LocationOf(b) \notin ObjectPrototype))]

TimedCounts(sessions) ==
    [i \in 1..Len(sessions) |->
        Len(SelectSeq(ExtractBookings(sessions[i]).v,
                      LAMBDA b : Interpolate(Get(b, "time"))
                                     \notin ObjectPrototype))]

\* Whether a session was created in one of the six months of the window.
InWindow(s) == \E i \in 0..5 : CreatedKey(s) = WindowKey(i)

\* The sessions of a list without the paid ones reported refunded.
WithoutRefunded(sessions) ==
    LET refunded == RefundedIn(sessions)
        Keep(i)  == i \notin refunded
        kept     == SelectSeq([i \in 1..Len(sessions) |-> i], Keep)
    IN  [k \in 1..Len(kept) |-> sessions[kept[k]]]

\* C6 (analytics exclusion asymmetry): for the sessions the processor returned,
\* a customer's bookings count is the sum of the decoded slot counts of all
\* their paid sessions (paid, and carrying the customer name that makes a
\* session a booking), refunded ones included, while their totalSpent sums
\* only the paid sessions not refunded; the monthly, location, time-slot and
\* day-of-week figures total the slots of the paid non-refunded sessions only
\* (those created in the window, of a location and a time that are not the
\* name of an inherited member, and of a valid date, respectively), and are
\* what they would be had the refunded sessions not been returned.
C6_ExclusionAsymmetry ==
    \A r \in DOMAIN reqs :
        (/\ reqs[r].pc = "done"
         /\ reqs[r].request.route = "analytics"
         /\ reqs[r].status = 200) =>
            LET sessions == reqs[r].sessions
                body     == reqs[r].body
                paid     == PaidIn(sessions)
                live     == paid \ RefundedIn(sessions)
                counts   == SlotCounts(sessions)
                dollars  == [i \in 1..Len(sessions) |->
                                sessions[i].amount_total \div 100]
                Of(c)    == {i \in paid : sessions[i].customer_email = c.email}
                without  == Analytics(WithoutRefunded(sessions))
            IN  /\ \A i \in paid : \E k \in 1..Len(body.customers) :
                       body.customers[k].email = sessions[i].customer_email
                /\ \A k \in 1..Len(body.customers) :
                       LET c == body.customers[k]
                       IN  /\ c.bookings = SumAt(counts, Of(c))
                           /\ c.totalSpent = SumAt(dollars, Of(c) \cap live)
                /\ SumAt([i \in 1..Len(sessions) |->
                             IF InWindow(sessions[i]) THEN counts[i] ELSE 0],
                         live)
                       = SumAt([key \in DOMAIN body.monthly |->
                                   body.monthly[key].demos],
                               DOMAIN body.monthly)
                /\ SumAt(LocatedCounts(sessions), live)
                       = SumAt([loc \in DOMAIN body.locations |->
                                   body.locations[loc].demos],
                               DOMAIN body.locations)
                /\ SumAt(TimedCounts(sessions), live)
                       = SumAt(body.timeSlots,
                               DOMAIN body.timeSlots \ ObjectPrototype)
                /\ \A i \in live : \A k \in 1..counts[i] :
                       LET b == ExtractBookings(sessions[i]).v[k]
                       IN  /\ LocationOf(b) \in ObjectPrototype
                               => LocationOf(b) \notin DOMAIN body.locations
                           /\ Interpolate(Get(b, "time"))
                                   \in ObjectPrototype \ {"__proto__"}
                               => body.timeSlots[Interpolate(Get(b, "time"))]
                                      = NaN
                /\ SumAt(DatedCounts(sessions), live)
                       = SumAt(body.popularDays, DOMAIN body.popularDays)
                /\ body.monthly = without.monthly
                /\ body.locations = without.locations
                /\ body.timeSlots = without.timeSlots
                /\ body.popularDays = without.popularDays

\* Analytics answered for a customer with a paid session of two slots and a
\* refunded one of one slot: three bookings, sixty dollars spent, and two
\* slots in the location figures.
C6_Witness ==
    /\ reqs[1].pc = "done"
    /\ reqs[1].request.route = "analytics"
    /\ reqs[1].status = 200
    /\ Len(reqs[1].sessions) = 2
    /\ RefundedIn(reqs[1].sessions) # {}
    /\ \E k \in 1..Len(reqs[1].body.customers) :
           /\ reqs[1].body.customers[k].bookings = 3
           /\ reqs[1].body.customers[k].totalSpent = 60
    /\ SumAt([loc \in DOMAIN reqs[1].body.locations |->
                 reqs[1].body.locations[loc].demos],
             DOMAIN reqs[1].body.locations) = 2

\* The positions of the processor's sessions created in the current month of
\* the server's calendar or later.
InPeriod ==
    LET now == LocalDate(env.now.seconds)
    IN  {i \in 1..Len(stripe.sessions) :
            LET created == LocalDate(stripe.sessions[i].created)
            IN  created.year * 12 + created.month >= now.year * 12 + now.month}

\* C7 (revenue split in stats): with D the sum of the decoded slot counts of
\* the period's paid sessions that carry a customer name, the stats response
\* has thisMonthDemos = D, marketShare = D x 20, grassrootsShare = D x 10, the
\* two shares adding up to D x 30, and the per-demo constants 30.00, 20.00 and
\* 10.00 whatever the sessions.
C7_RevenueSplit ==
    \A r \in DOMAIN reqs :
        (/\ reqs[r].pc = "done"
         /\ reqs[r].request.route = "stats"
         /\ reqs[r].status = 200) =>
            LET D    == SumAt(SlotCounts(stripe.sessions),
                              InPeriod \cap PaidIn(stripe.sessions))
                body == reqs[r].body
            IN  /\ body.thisMonthDemos = D
                /\ body.marketShare = NatToString(D * 20) \o ".00"
                /\ body.grassrootsShare = NatToString(D * 10) \o ".00"
                /\ ParseInt(body.marketShare)[1]
                       + ParseInt(body.grassrootsShare)[1] = D * 30
                /\ body.demoFee = "30.00"
                /\ body.marketPerDemo = "20.00"
                /\ body.grassrootsPerDemo = "10.00"

\* Stats answered over three sessions of which one falls before the period and
\* two, of two slots and of none, count: D = 2.
C7_Witness ==
    /\ reqs[1].pc = "done"
    /\ reqs[1].request.route = "stats"
    /\ reqs[1].status = 200
    /\ Len(stripe.sessions) = 3
    /\ Cardinality(InPeriod) = 2
    /\ reqs[1].body.thisMonthDemos = 2
    /\ reqs[1].body.marketShare = "40.00"

(***************************************************************************)
(* Claims about decoding for the admin consumers (under SpecDecode)        *)
(***************************************************************************)

\* The rows of the listing a request has answered with.
RowsOf(r) ==
    IF reqs[r].pc = "done" /\ reqs[r].status = 200
       /\ reqs[r].request.route = "bookings"
    THEN reqs[r].body.bookings
    ELSE <<>>

\* C11: whatever metadata a session carries (no bookings key, an empty value,
\* a chunk count naming missing chunks, text that does not parse, text that
\* parses to something other than a list), the bookings extractBookings
\* returns for a row of the listing are a sequence.
C11_DefensiveDecode ==
    \A r \in DOMAIN reqs :
        \A i \in 1..Len(RowsOf(r)) : RowsOf(r)[i].bookings.kind = "array"

(***************************************************************************)
(* Claims about verify's decoding (under SpecVerify)                       *)
(***************************************************************************)

\* C12: verify decodes as extractBookings does: for every paid session it
\* retrieved, whatever its metadata, it answers success once the send has been
\* attempted, and the bookings it returns are the sequence extractBookings
\* returns for that metadata (empty when the payload is missing or malformed).
C12_VerifySameCodec ==
    \A r \in Retrieved :
        (reqs[r].session.payment_status = "paid" /\ reqs[r].pc = "done") =>
            /\ reqs[r].status = 200
            /\ reqs[r].body.success
            /\ reqs[r].body.bookings = ExtractBookings(reqs[r].session).v

(***************************************************************************)
(* Claims about repeated checkouts (under SpecRetry)                       *)
(***************************************************************************)

\* The session-create calls the server has made to the processor.
SessionCreates(calls) ==
    {k \in 1..Len(calls) : calls[k].op = "sessions.create"}

\* The ids of the sessions at the processor.
SessionIds(sessions) == {sessions[i].id : i \in 1..Len(sessions)}

\* A checkout request is taken: it makes one create call and awaits it, or
\* (the request cannot be processed) it is answered 500 {error, type} with no
\* call; no session is opened yet.
CheckoutTaken ==
    /\ stripe'.sessions = stripe.sessions
    /\ \/ /\ reqs'[1].pc = "sessions.create"
          /\ Cardinality(SessionCreates(stripe'.calls))
                 = Cardinality(SessionCreates(stripe.calls)) + 1
       \/ /\ reqs'[1].pc = "done"
          /\ reqs'[1].status = 500
          /\ DOMAIN reqs'[1].body = {"error", "type"}
          /\ stripe'.calls = stripe.calls

\* The awaited create call ends: with one new session, whose id no earlier
\* session has and which carries the request's encoded cart, answered 200
\* {sessionId, url}; or with no session and 500 {error, type}.  No further
\* call is made.
CheckoutAnswered ==
    /\ reqs'[1].pc = "done"
    /\ stripe'.calls = stripe.calls
    /\ \/ /\ reqs'[1].status = 200
          /\ Len(stripe'.sessions) = Len(stripe.sessions) + 1
          /\ SubSeq(stripe'.sessions, 1, Len(stripe.sessions)) = stripe.sessions
          /\ LET session == stripe'.sessions[Len(stripe'.sessions)]
             IN  /\ session.id \notin SessionIds(stripe.sessions)
                 /\ session.metadata = EncodeMetadata(reqs[1].request)
                 /\ reqs'[1].body
                        = [sessionId |-> session.id,
                           url |-> "https://checkout.stripe.test/"
                                   \o session.id]
       \/ /\ reqs'[1].status = 500
          /\ DOMAIN reqs'[1].body = {"error", "type"}
          /\ stripe'.sessions = stripe.sessions

\* C13: every checkout call makes at most one session-create call; when the
\* call succeeds the answer is {sessionId, url} of a new session, distinct
\* from every earlier one even for the same cart; when it fails, or the
\* request cannot be processed, the answer is 500 {error, type}, no session
\* is opened and no success is sent; calls and sessions change at no other
\* step.
C13_OneSessionPerCall ==
    [][ /\ reqs[1].pc = "idle" /\ reqs'[1].pc # "idle" => CheckoutTaken
        /\ reqs[1].pc = "sessions.create" /\ reqs'[1] # reqs[1]
               => CheckoutAnswered
        /\ reqs[1].pc = "done" => stripe' = stripe ]_vars

\* C13 witness: three checkouts of the same cart have left three sessions
\* with three ids at the processor, and a fourth call has failed.
C13_Witness ==
    /\ Len(stripe.sessions) = 3
    /\ Cardinality(SessionIds(stripe.sessions)) = 3
    /\ \A i \in 1..3 : /\ stripe.sessions[i].metadata
                              = stripe.sessions[1].metadata
                       /\ Len(stripe.sessions[i].line_items) = 2
    /\ Cardinality(SessionCreates(stripe.calls)) = 4
    /\ reqs[1].pc = "done"
    /\ reqs[1].status = 500

(***************************************************************************)
(* Claims about the calendar attachment (under SpecCalendar)               *)
(***************************************************************************)

\* The hour of day of a 12-hour clock reading.
Hour24(h, half) ==
    IF half = "AM" THEN (IF h = 12 THEN 0 ELSE h)
    ELSE (IF h = 12 THEN 12 ELSE h + 12)

\* The date and the hour a DTSTART or DTEND value names.
StampDate(stamp) == Slice(stamp, 0, 8)

StampHour(stamp) == ParseInt(Slice(stamp, 9, 11))[1]

\* The calendars the server has handed to the email provider, each with the
\* slots of the session it was made for.
Calendars ==
    { [events |-> resend.sends[k].message.attachment,
       slots  |-> ExtractBookings(stripe.sessions[1]).v] :
         k \in {j \in 1..Len(resend.sends) :
                    resend.sends[j].message.kind = "confirmation"} }

\* C14: the calendar holds one event per slot, in slot order; for a slot
\* labelled h:00 AM or h:00 PM the event starts at the standard 24-hour hour
\* (12 AM is 0, 12 PM is 12, otherwise h PM is h + 12) and ends at that hour
\* plus 3 on the date it starts; 11:00 AM gives 11 and 14, 3:00 PM gives 15
\* and 18, and a start no later than 8 PM ends no later than hour 23.
C14_CalendarHours ==
    \A c \in Calendars :
        /\ Len(c.events) = Len(c.slots)
        /\ \A i \in 1..Len(c.slots) :
             /\ c.events[i].uid
                    = "wm-demo-" \o NowString \o "-" \o NatToString(i - 1)
                      \o "@woodlandsmarket.com"
             /\ c.events[i].location
                    = "Woodlands Market, " \o c.slots[i].location \o ", CA"
             /\ StampDate(c.events[i].dtend) = StampDate(c.events[i].dtstart)
             /\ \A h \in 1..12, half \in {"AM", "PM"} :
                    c.slots[i].time = TimeLabel(h, half) =>
                        /\ StampHour(c.events[i].dtstart) = Hour24(h, half)
                        /\ StampHour(c.events[i].dtend) = Hour24(h, half) + 3
                        /\ Hour24(h, half) <= 20
                               => StampHour(c.events[i].dtend) <= 23
             /\ c.slots[i].time = "11:00 AM" =>
                    /\ Slice(c.events[i].dtstart, 8, 15) = "T110000"
                    /\ Slice(c.events[i].dtend, 8, 15) = "T140000"
             /\ c.slots[i].time = "3:00 PM" =>
                    /\ Slice(c.events[i].dtstart, 8, 15) = "T150000"
                    /\ Slice(c.events[i].dtend, 8, 15) = "T180000"

\* C14 witness: a calendar of two events has been sent, the first for a slot
\* at 12:00 PM and the second for a slot at 12:00 AM on another day.
C14_Witness ==
    \E c \in Calendars :
        /\ Len(c.events) = 2
        /\ c.slots[1].time = "12:00 PM"
        /\ c.slots[2].time = "12:00 AM"
        /\ Slice(c.events[1].dtstart, 8, 15) = "T120000"
        /\ Slice(c.events[2].dtend, 8, 15) = "T030000"
        /\ StampDate(c.events[1].dtstart) # StampDate(c.events[2].dtstart)
        /\ resend.sends[1].outcome = "sent"

(***************************************************************************)
(* Claims about the analytics pagination (under SpecPages)                 *)
(***************************************************************************)

\* The list calls a request has made, in order.
FetchesOf(r) ==
    LET ByRequest(call) == call.op = "sessions.list" /\ call.req = r
    IN  SelectSeq(stripe.calls, ByRequest)

\* C15: whatever pages of at most 100 sessions and has_more flags the
\* processor answers with, an analytics request makes at most 3 list calls
\* and retains at most 300 sessions, while it loops and when it has answered.
C15_BoundedPagination ==
    \A r \in DOMAIN reqs :
        /\ Len(FetchesOf(r)) <= 3
        /\ reqs[r].pc = "analytics.list"
               => Len(reqs[r].allSessions) <= MaxFetched
        /\ reqs[r].pc = "done" /\ reqs[r].status = 200
               => Len(reqs[r].sessions) <= MaxFetched

(***************************************************************************)
(* Claims about the customer rollup (under SpecRollup)                     *)
(***************************************************************************)

\* The positions, among the sessions a request fetched, of the paid sessions
\* of a customer's email.
SessionsOfEmail(r, email) ==
    {i \in 1..Len(reqs[r].sessions) :
        /\ PaidWithName(reqs[r].sessions[i])
        /\ reqs[r].sessions[i].customer_email = email}

\* C16: in the analytics response, a customer's name and company are those of
\* the session of their email with the greatest creation time, in the order
\* the processor lists the sessions (most recent first), and firstBooking and
\* lastBooking are the least and the greatest creation time of those sessions.
C16_LatestIdentityWins ==
    \A r \in DOMAIN reqs :
        (/\ reqs[r].pc = "done"
         /\ reqs[r].status = 200
         /\ reqs[r].request.route = "analytics") =>
            \A k \in 1..Len(reqs[r].body.customers) :
                LET c      == reqs[r].body.customers[k]
                    mine   == SessionsOfEmail(r, c.email)
                    latest == CHOOSE i \in mine : \A j \in mine :
                                  reqs[r].sessions[j].created
                                      <= reqs[r].sessions[i].created
                    first  == CHOOSE i \in mine : \A j \in mine :
                                  reqs[r].sessions[i].created
                                      <= reqs[r].sessions[j].created
                IN  /\ mine # {}
                    /\ c.name = Get(reqs[r].sessions[latest].metadata,
                                    "customerName")
                    /\ c.company = Get(reqs[r].sessions[latest].metadata,
                                       "company")
                    /\ c.lastBooking
                           = ToISOString(reqs[r].sessions[latest].created)
                    /\ c.firstBooking
                           = ToISOString(reqs[r].sessions[first].created)

(***************************************************************************)
(* Claims about the refund handler's paths (under SpecRefund)              *)
(***************************************************************************)

\* A cancellation email is handed to the mail provider in this step: the
\* awaited refund-create call of the request has just succeeded, and the
\* message names the refund it made.
EmailFollowsRefund ==
    /\ reqs[1].pc = "refund.create"
    /\ reqs'[1].pc = "refund.send"
    /\ Len(resend'.sends) = Len(resend.sends) + 1
    /\ Len(stripe'.refunds) = Len(stripe.refunds) + 1
    /\ LET refund == stripe'.refunds[Len(stripe'.refunds)]
           send   == resend'.sends[Len(resend'.sends)]
       IN  /\ refund.call = reqs[1].call
           /\ stripe.calls[refund.call].op = "refunds.create"
           /\ send.message.refundId = refund.id
           /\ send.message.subject = "Demo Booking Cancelled - Refund Issued"

\* The request is answered 400 or 500 in this step: it was awaiting the
\* retrieve call (no intent, already refunded, or the call failed) or the
\* refund-create call (which failed), so it has made no refund and attempted no
\* email, and makes none now.
RefusedWithoutEffect ==
    /\ reqs[1].pc \in {"refund.retrieve", "refund.create"}
    /\ reqs'[1].status = 400 => reqs[1].pc = "refund.retrieve"
    /\ stripe'.refunds = stripe.refunds
    /\ resend'.sends = resend.sends

\* C17: the cancellation email is attempted only once the refund-create call
\* has succeeded; a request answered 400 (no payment intent, already
\* refunded) or 500 (a processor call failed) created no refund and sent no
\* email; a request whose refund succeeded answers {success, refundId, amount}
\* whether the email was sent or failed.
C17_RefundOrdering ==
    [][ /\ Len(resend'.sends) # Len(resend.sends) => EmailFollowsRefund
        /\ stripe'.refunds # stripe.refunds => EmailFollowsRefund
        /\ (/\ reqs[1].pc # "done"
            /\ reqs'[1].pc = "done"
            /\ reqs'[1].status \in {400, 500}) => RefusedWithoutEffect
        /\ reqs[1].pc = "refund.send" /\ reqs'[1] # reqs[1] =>
               /\ reqs'[1].pc = "done"
               /\ reqs'[1].status = 200
               /\ reqs'[1].body
                      = [success  |-> TRUE,
                         refundId |-> reqs[1].refund.id,
                         amount   |-> ToFixed2(reqs[1].refund.amount)]
               /\ resend'.sends[reqs[1].send].outcome \in {"sent", "failed"} ]_vars

\* C17 witness: a first refund-create call failed and made no refund; the
\* second request's call succeeded, its cancellation email failed, and the
\* request has answered success with the refund's id and amount.
C17_Witness ==
    /\ reqs[1].pc = "done"
    /\ reqs[1].status = 200
    /\ reqs[1].body.refundId = "re_1"
    /\ reqs[1].body.amount = "60.00"
    /\ Len(stripe.refunds) = 1
    /\ stripe.refunds[1].call = 4
    /\ stripe.calls[2].op = "refunds.create"
    /\ Len(resend.sends) = 1
    /\ resend.sends[1].outcome = "failed"

(***************************************************************************)
(* Claims about the monthly window (under SpecMonthly)                     *)
(***************************************************************************)

\* The calendar month before a month.
PreviousMonth(ym) ==
    IF ym.month = 1 THEN [year |-> ym.year - 1, month |-> 12]
    ELSE [year |-> ym.year, month |-> ym.month - 1]

\* The keys of the n consecutive calendar months that end with a month.
RECURSIVE TrailingMonths(_, _)
TrailingMonths(ym, n) ==
    IF n = 0 THEN {}
    ELSE {MonthKey(ym.year, ym.month)}
         \cup TrailingMonths(PreviousMonth(ym), n - 1)

\* C18: the monthly mapping of an analytics response has exactly 6 keys, the
\* 6 consecutive calendar year-months that end with the current month, across
\* a year boundary too; each key holds the demos and revenue of the paid
\* non-refunded sessions created in that month, zero when there is none, so a
\* session created outside the window changes nothing; and for every key
\* market = demos x 20 and grassroots = demos x 10.
C18_MonthlyWindow ==
    \A r \in DOMAIN reqs :
        (/\ reqs[r].pc = "done"
         /\ reqs[r].request.route = "analytics"
         /\ reqs[r].status = 200) =>
            LET sessions == reqs[r].sessions
                monthly  == reqs[r].body.monthly
                live     == PaidIn(sessions) \ RefundedIn(sessions)
                counts   == SlotCounts(sessions)
                dollars  == [i \in 1..Len(sessions) |->
                                sessions[i].amount_total \div 100]
                In(key)  == {i \in live :
                                LET created == LocalDate(sessions[i].created)
                                IN  MonthKey(created.year, created.month) = key}
            IN  /\ DOMAIN monthly = TrailingMonths(LocalDate(env.now.seconds), 6)
                /\ Cardinality(DOMAIN monthly) = 6
                /\ \A key \in DOMAIN monthly :
                       /\ monthly[key].demos = SumAt(counts, In(key))
                       /\ monthly[key].revenue = SumAt(dollars, In(key))
                       /\ monthly[key].market = monthly[key].demos * 20
                       /\ monthly[key].grassroots = monthly[key].demos * 10
                       /\ In(key) = {} =>
                              monthly[key] = [revenue |-> 0, demos |-> 0,
                                              market |-> 0, grassroots |-> 0]

\* C18 witness: served in the first second of 2026, the window runs from
\* 2025-08 to 2026-01; a session of two slots paid an hour earlier counts
\* under 2025-12, and one paid seven months earlier counts nowhere.
C18_Witness ==
    /\ reqs[1].pc = "done"
    /\ reqs[1].request.route = "analytics"
    /\ reqs[1].status = 200
    /\ env.now.seconds = 1767254400
    /\ DOMAIN reqs[1].body.monthly
           = {"2025-08", "2025-09", "2025-10", "2025-11", "2025-12", "2026-01"}
    /\ reqs[1].body.monthly["2025-12"]
           = [revenue |-> 60, demos |-> 2, market |-> 40, grassroots |-> 20]
    /\ reqs[1].body.monthly["2026-01"].demos = 0
    /\ Len(reqs[1].sessions) = 2
    /\ PaidIn(reqs[1].sessions) = {1, 2}
    /\ RefundedIn(reqs[1].sessions) = {}

(***************************************************************************)
(* Claims about concurrent refunds (under SpecRace)                        *)
(***************************************************************************)

\* The requests that have answered success.
Succeeded ==
    {r \in DOMAIN reqs : reqs[r].pc = "done" /\ reqs[r].status = 200}

\* C19: when two authorised refund requests for the same paid, not yet
\* refunded session run concurrently, the processor receives at most one
\* refund-create call for the session and at most one request answers success.
C19_AtMostOneRefundCall ==
    /\ Cardinality(CreateCalls("pi_" \o stripe.sessions[1].id)) <= 1
    /\ Cardinality(Succeeded) <= 1

====
